---- MODULE Spec2Model ----
(***************************************************************************)
(* vcard-ts: a vCard 3.0 (RFC 2426) serializer.                            *)
(*                                                                         *)
(* The library is a set of pure functions: escapeText, escapeParamValue,   *)
(* foldLine, formatDate, formatDateTime (utils) and formatVCard with its   *)
(* field encoders (formatter).  Each function is an operator computed the  *)
(* way the source computes it, over TLC strings (Len, SubSeq and \o act on *)
(* strings; a character is a string of length one).  The state machine is  *)
(* a client that calls one exported function at a time: `op` is the        *)
(* function called, `arg` its arguments, `lines` the logical lines that    *)
(* formatVCard collected before folding, `ret` the returned text, `seen`   *)
(* the log of the calls made one after the other, `frame` the call of      *)
(* foldLine under way when a call is followed statement by statement.      *)
(***************************************************************************)
EXTENDS Integers, Sequences, FiniteSets, TLC

VARIABLES pc, op, arg, lines, ret, seen, frame

vars == <<pc, op, arg, lines, ret, seen, frame>>

(***************************************************************************)
(* Bounds of the model.                                                    *)
(***************************************************************************)
\* longest text handed to escapeText / escapeParamValue on their own
MaxText == 3
\* longest variable middle part of a line handed to foldLine
MaxMid == 3
\* how far before the fold column the variable part of a line may start
FoldSlack == 3
\* most optional fields populated at once in a record given to formatVCard
MaxOptional == 2

(***************************************************************************)
(* Optional values: undefined is the empty tuple, a present value v is the *)
(* one-element tuple <<v>>.                                                *)
(***************************************************************************)
Undefined == <<>>

Some(v) == <<v>>

Defined(o) == o # Undefined

Val(o) == o[1]

(***************************************************************************)
(* String primitives of the host language.                                 *)
(***************************************************************************)
CR == "\r"

LF == "\n"

CRLF == "\r\n"

BS == "\\"

DQ == "\""

\* s[i] (1-based)
Ch(s, i) == SubSeq(s, i, i)

\* s.slice(from) and s.slice(0, to), 0-based as in the source
SliceFrom(s, from) == SubSeq(s, from + 1, Len(s))

SliceTo(s, to) == SubSeq(s, 1, IF to < Len(s) THEN to ELSE Len(s))

\* s.startsWith(p, i - 1)
StartsAt(s, i, p) == i + Len(p) - 1 <= Len(s) /\ SubSeq(s, i, i + Len(p) - 1) = p

(***************************************************************************)
(* The passes over a string split it in halves rather than walk it         *)
(* character by character, so that the evaluation depth stays logarithmic  *)
(* in the length; a half never ends inside a match, so the result is that  *)
(* of the single left-to-right pass of the host's global replace.          *)
(***************************************************************************)
RECURSIVE Rep(_, _)
\* c.repeat(n)
Rep(c, n) ==
  IF n <= 0 THEN ""
  ELSE IF n = 1 THEN c
  ELSE Rep(c, n \div 2) \o Rep(c, n - n \div 2)

RECURSIVE ReplaceAll(_, _, _)
\* s.replace(/c/g, by) for a single character c
ReplaceAll(s, c, by) ==
  IF Len(s) = 0 THEN ""
  ELSE IF Len(s) = 1 THEN (IF s = c THEN by ELSE s)
  ELSE LET m == Len(s) \div 2
       IN  ReplaceAll(SubSeq(s, 1, m), c, by) \o ReplaceAll(SubSeq(s, m + 1, Len(s)), c, by)

RECURSIVE ReplaceNewlines(_, _)
\* s.replace(/\r\n|\r|\n/g, by): the alternation takes CRLF as one match
ReplaceNewlines(s, by) ==
  IF Len(s) = 0 THEN ""
  ELSE IF Len(s) = 1 THEN (IF s = CR \/ s = LF THEN by ELSE s)
  ELSE IF s = CRLF THEN by
  ELSE LET half == Len(s) \div 2
           m == IF SubSeq(s, half, half + 1) = CRLF /\ half + 1 < Len(s)
                THEN half + 1
                ELSE IF SubSeq(s, half, half + 1) = CRLF THEN half - 1
                ELSE half
       IN  ReplaceNewlines(SubSeq(s, 1, m), by)
             \o ReplaceNewlines(SubSeq(s, m + 1, Len(s)), by)

\* /[chars]/.test(s)
ContainsAny(s, chars) == \E i \in 1..Len(s) : Ch(s, i) \in chars

\* s.includes(p)
Contains(s, p) == \E i \in 1..Len(s) : StartsAt(s, i, p)

RECURSIVE Join(_, _)
\* xs.join(sep)
Join(xs, sep) ==
  IF Len(xs) = 0 THEN ""
  ELSE IF Len(xs) = 1 THEN xs[1]
  ELSE xs[1] \o sep \o Join(Tail(xs), sep)

\* xs.map(f)
Map(f(_), xs) == [i \in 1..Len(xs) |-> f(xs[i])]

(***************************************************************************)
(* utils: escaping and folding.                                            *)
(***************************************************************************)
\* the line breaks not normalised first: only the LF is escaped, a CR stays
escapeText_LFOnly(text) ==
  ReplaceAll(ReplaceAll(ReplaceAll(ReplaceAll(text, BS, BS \o BS), ";", BS \o ";"),
                        ",", BS \o ","), LF, BS \o "n")

\* the replacement of the backslash left out
escapeText_NoBackslash(text) ==
  LET normalized == ReplaceNewlines(text, LF)
  IN  ReplaceAll(ReplaceAll(ReplaceAll(normalized, ";", BS \o ";"), ",", BS \o ","),
                 LF, BS \o "n")

\* the same four replacements with the backslash pass last: the slip the
\* source's fixed order guards against
escapeText_BackslashLast(text) ==
  LET normalized == ReplaceNewlines(text, LF)
  IN  ReplaceAll(ReplaceAll(ReplaceAll(ReplaceAll(normalized,
        ";", BS \o ";"), ",", BS \o ","), LF, BS \o "n"), BS, BS \o BS)

escapeText(text) ==
  LET normalized == ReplaceNewlines(text, LF)
  IN  ReplaceAll(ReplaceAll(ReplaceAll(ReplaceAll(normalized,
        BS, BS \o BS), ";", BS \o ";"), ",", BS \o ","), LF, BS \o "n")

\* every value wrapped in double quotes, whether or not it needs them
escapeParamValue_AlwaysQuote(value) ==
  LET normalized == ReplaceNewlines(value, " ")
  IN  DQ \o ReplaceAll(normalized, DQ, "'") \o DQ

\* the quoted form with the value's own double quotes left in it
escapeParamValue_KeepQuotes(value) ==
  LET normalized == ReplaceNewlines(value, " ")
      needsQuotes == ContainsAny(normalized, {DQ, ";", ":", ","})
  IN  IF ~needsQuotes THEN normalized
      ELSE DQ \o normalized \o DQ

escapeParamValue(value) ==
  LET normalized == ReplaceNewlines(value, " ")
      needsQuotes == ContainsAny(normalized, {DQ, ";", ":", ","})
  IN  IF ~needsQuotes THEN normalized
      ELSE DQ \o ReplaceAll(normalized, DQ, "'") \o DQ

\* first line of a folded line
FoldWidth == 75

\* payload of a continuation line (its leading space makes it FoldWidth)
ContWidth == 74

RECURSIVE FoldRest(_)
\* the while loop of foldLine over the remainder
FoldRest(currentLine) ==
  IF Len(currentLine) > 0
  THEN <<" " \o SliceTo(currentLine, ContWidth)>> \o FoldRest(SliceFrom(currentLine, ContWidth))
  ELSE <<>>

RECURSIVE FoldRest_NoSpace(_)
FoldRest_NoSpace(currentLine) ==
  IF Len(currentLine) > 0
  THEN <<SliceTo(currentLine, ContWidth)>> \o FoldRest_NoSpace(SliceFrom(currentLine, ContWidth))
  ELSE <<>>

\* continuation lines pushed without their leading space
foldLine_NoSpace(line) ==
  IF Len(line) <= FoldWidth THEN line
  ELSE Join(<<SliceTo(line, FoldWidth)>> \o FoldRest_NoSpace(SliceFrom(line, FoldWidth)), CRLF)

\* a line of 76 characters still returned as it is
foldLine_Wide(line) ==
  IF Len(line) <= FoldWidth + 1 THEN line
  ELSE Join(<<SliceTo(line, FoldWidth)>> \o FoldRest(SliceFrom(line, FoldWidth)), CRLF)

foldLine(line) ==
  IF Len(line) <= FoldWidth THEN line
  ELSE Join(<<SliceTo(line, FoldWidth)>> \o FoldRest(SliceFrom(line, FoldWidth)), CRLF)

(***************************************************************************)
(* utils: dates.  A Date is a record of its local calendar fields and its  *)
(* UTC fields (month 0-based, as getMonth returns it).                     *)
(***************************************************************************)
\* String(n).padStart(width, '0')
PadStart(s, width) == IF Len(s) >= width THEN s ELSE Rep("0", width - Len(s)) \o s

formatDate(date) ==
  LET year == ToString(date.fullYear)
      month == PadStart(ToString(date.month + 1), 2)
      day == PadStart(ToString(date.date), 2)
  IN  year \o "-" \o month \o "-" \o day

formatDateTime(date) ==
  LET year == ToString(date.utcFullYear)
      month == PadStart(ToString(date.utcMonth + 1), 2)
      day == PadStart(ToString(date.utcDate), 2)
      hours == PadStart(ToString(date.utcHours), 2)
      minutes == PadStart(ToString(date.utcMinutes), 2)
      seconds == PadStart(ToString(date.utcSeconds), 2)
  IN  year \o "-" \o month \o "-" \o day \o "T" \o hours \o ":" \o minutes
        \o ":" \o seconds \o "Z"

(***************************************************************************)
(* More string primitives used by the formatter.                           *)
(***************************************************************************)
Lower == "abcdefghijklmnopqrstuvwxyz"

Upper == "ABCDEFGHIJKLMNOPQRSTUVWXYZ"

UpperChar(c) ==
  IF \E k \in 1..Len(Lower) : Ch(Lower, k) = c
  THEN Ch(Upper, CHOOSE k \in 1..Len(Lower) : Ch(Lower, k) = c)
  ELSE c

RECURSIVE toUpperCase(_)
\* s.toUpperCase()
toUpperCase(s) ==
  IF Len(s) = 0 THEN ""
  ELSE IF Len(s) = 1 THEN UpperChar(s)
  ELSE LET m == Len(s) \div 2
       IN  toUpperCase(SubSeq(s, 1, m)) \o toUpperCase(SubSeq(s, m + 1, Len(s)))

WhiteSpace == {" ", "\t", CR, LF}

\* s.trim() !== ''
TrimNonEmpty(s) == \E i \in 1..Len(s) : Ch(s, i) \notin WhiteSpace

Digits == {"0", "1", "2", "3", "4", "5", "6", "7", "8", "9"}

\* the pattern without its end anchor: /^[+-]\d{2}:\d{2}/.test(tz)
IsUtcOffset_Prefix(tz) ==
  /\ Len(tz) >= 6
  /\ Ch(tz, 1) \in {"+", "-"}
  /\ Ch(tz, 2) \in Digits /\ Ch(tz, 3) \in Digits
  /\ Ch(tz, 4) = ":"
  /\ Ch(tz, 5) \in Digits /\ Ch(tz, 6) \in Digits

\* /^[+-]\d{2}:\d{2}$/.test(tz)
IsUtcOffset(tz) ==
  /\ Len(tz) = 6
  /\ Ch(tz, 1) \in {"+", "-"}
  /\ Ch(tz, 2) \in Digits /\ Ch(tz, 3) \in Digits
  /\ Ch(tz, 4) = ":"
  /\ Ch(tz, 5) \in Digits /\ Ch(tz, 6) \in Digits

\* list !== undefined && list.length > 0
NonEmptyList(o) == Defined(o) /\ Len(Val(o)) > 0

\* types !== undefined && types.length > 0 ? `;TYPE=${types.join(',')}` : ''
TypeParam(types) == IF NonEmptyList(types) THEN ";TYPE=" \o Join(Val(types), ",") ELSE ""

\* mediaType !== undefined ? `;TYPE=${mediaType}` : ''
MediaTypeParam(mediaType) == IF Defined(mediaType) THEN ";TYPE=" \o Val(mediaType) ELSE ""

(***************************************************************************)
(* formatter: the field encoders.                                          *)
(***************************************************************************)
\* list.map(escapeText).join(',') of an optional list, '' when absent or empty
EscapedList(o) == IF NonEmptyList(o) THEN Join(Map(escapeText, Val(o)), ",") ELSE ""

\* only the components that are not empty joined: the separators of the
\* missing ones are lost
formatName_DropEmpty(name, charsetParam) ==
  LET familyName == IF Defined(name.familyName) THEN escapeText(Val(name.familyName)) ELSE ""
      givenName == IF Defined(name.givenName) THEN escapeText(Val(name.givenName)) ELSE ""
      additionalNames == EscapedList(name.additionalNames)
      prefixes == EscapedList(name.honorificPrefixes)
      suffixes == EscapedList(name.honorificSuffixes)
      parts == <<familyName, givenName, additionalNames, prefixes, suffixes>>
  IN  "N" \o charsetParam \o ":" \o Join(SelectSeq(parts, LAMBDA x : x # ""), ";")

formatName(name, charsetParam) ==
  LET familyName == IF Defined(name.familyName) THEN escapeText(Val(name.familyName)) ELSE ""
      givenName == IF Defined(name.givenName) THEN escapeText(Val(name.givenName)) ELSE ""
      additionalNames == EscapedList(name.additionalNames)
      prefixes == EscapedList(name.honorificPrefixes)
      suffixes == EscapedList(name.honorificSuffixes)
  IN  "N" \o charsetParam \o ":" \o familyName \o ";" \o givenName \o ";"
        \o additionalNames \o ";" \o prefixes \o ";" \o suffixes

\* the component written as given
AdrPart_Raw(o) == IF Defined(o) THEN Val(o) ELSE ""

\* address.<component> !== undefined ? escapeText(address.<component>) : ''
AdrPart(o) == IF Defined(o) THEN escapeText(Val(o)) ELSE ""

formatAddress(address, charsetParam) ==
  LET typeParam == TypeParam(address.types)
      poBox == AdrPart(address.postOfficeBox)
      extAddr == AdrPart(address.extendedAddress)
      street == AdrPart(address.street)
      locality == AdrPart(address.locality)
      region == AdrPart(address.region)
      postalCode == AdrPart(address.postalCode)
      country == AdrPart(address.country)
  IN  "ADR" \o typeParam \o charsetParam \o ":" \o poBox \o ";" \o extAddr \o ";"
        \o street \o ";" \o locality \o ";" \o region \o ";" \o postalCode
        \o ";" \o country

formatTelephone(tel) == "TEL" \o TypeParam(tel.types) \o ":" \o tel.value

formatEmail(email, charsetParam) ==
  "EMAIL" \o TypeParam(email.types) \o charsetParam \o ":" \o escapeText(email.value)

\* the locator and the content escaped like a text value
formatMedia_Escaped(propertyName, media) ==
  IF Defined(media.uri)
  THEN <<propertyName \o (IF propertyName = "KEY" THEN "" ELSE ";VALUE=uri" \o MediaTypeParam(media.mediaType))
           \o ":" \o escapeText(Val(media.uri))>>
  ELSE <<propertyName \o ";ENCODING=b" \o MediaTypeParam(media.mediaType) \o ":"
           \o escapeText(Val(media.value))>>

\* no special case for KEY: a reference marked and written as for the others
formatMedia_KeyAsMedia(propertyName, media) ==
  IF Defined(media.uri)
  THEN <<propertyName \o ";VALUE=uri" \o MediaTypeParam(media.mediaType) \o ":"
           \o Val(media.uri)>>
  ELSE <<propertyName \o ";ENCODING=b" \o MediaTypeParam(media.mediaType) \o ":"
           \o Val(media.value)>>

formatMedia(propertyName, media) ==
  IF propertyName = "KEY"
  THEN IF Defined(media.uri)
       THEN <<"KEY:" \o escapeText(Val(media.uri))>>
       ELSE <<"KEY;ENCODING=b" \o MediaTypeParam(media.mediaType) \o ":" \o Val(media.value)>>
  ELSE IF Defined(media.uri)
       THEN <<propertyName \o ";VALUE=uri" \o MediaTypeParam(media.mediaType) \o ":"
                \o Val(media.uri)>>
       ELSE <<propertyName \o ";ENCODING=b" \o MediaTypeParam(media.mediaType) \o ":"
                \o Val(media.value)>>

\* the label line pushed for every label given, a blank one too
UrlEntryLines_AnyLabel(entry, index) ==
  LET group == "item" \o ToString(index + 1)
  IN  <<group \o ".URL:" \o entry.value>>
        \o (IF Defined(entry.type)
            THEN <<group \o ".X-ABLabel:" \o escapeText(Val(entry.type))>>
            ELSE <<>>)

\* the lines of one entry of urls, index 0-based as forEach passes it
UrlEntryLines(entry, index) ==
  LET group == "item" \o ToString(index + 1)
  IN  <<group \o ".URL:" \o entry.value>>
        \o (IF Defined(entry.type) /\ TrimNonEmpty(Val(entry.type))
            THEN <<group \o ".X-ABLabel:" \o escapeText(Val(entry.type))>>
            ELSE <<>>)

RECURSIVE UrlLinesFrom(_, _)
UrlLinesFrom(urls, i) ==
  IF i > Len(urls) THEN <<>> ELSE UrlEntryLines(urls[i], i - 1) \o UrlLinesFrom(urls, i + 1)

formatUrlsForApple(urls) == UrlLinesFrom(urls, 1)

(***************************************************************************)
(* formatter: formatVCard.  Each block of the function that pushes the     *)
(* lines of one property is an operator returning those lines; the blocks  *)
(* are concatenated in the order the source runs them.                     *)
(***************************************************************************)
\* options?.charset
OptCharset(options) == IF Defined(options) THEN Val(options).charset ELSE Undefined

\* the character set put into the parameter as it is, unquoted
CharsetParam_Raw(charset) ==
  IF Defined(charset) THEN ";CHARSET=" \o Val(charset) ELSE ""

CharsetParam(charset) ==
  IF Defined(charset) THEN ";CHARSET=" \o escapeParamValue(Val(charset)) ELSE ""

\* a property whose value is one escaped text: `NAME${charsetParam}:${escapeText(v)}`
TextLines(propertyName, o, charsetParam) ==
  IF Defined(o) THEN <<propertyName \o charsetParam \o ":" \o escapeText(Val(o))>> ELSE <<>>

FnLines(vcard, charsetParam) == <<"FN" \o charsetParam \o ":" \o escapeText(vcard.formattedName)>>

\* the nickname line pushed for every list, an empty one too
NicknameLines_AlwaysEmit(vcard, charsetParam) ==
  IF Defined(vcard.nickname)
  THEN <<"NICKNAME" \o charsetParam \o ":" \o Join(Map(escapeText, Val(vcard.nickname)), ",")>>
  ELSE <<>>

NicknameLines(vcard, charsetParam) ==
  IF NonEmptyList(vcard.nickname)
  THEN <<"NICKNAME" \o charsetParam \o ":" \o Join(Map(escapeText, Val(vcard.nickname)), ",")>>
  ELSE <<>>

MediaLines(propertyName, o) == IF Defined(o) THEN formatMedia(propertyName, Val(o)) ELSE <<>>

\* a Date | string field: the Date formatted by fmt, the string verbatim
DateOrString(v, fmt(_)) == IF v.isDate THEN fmt(v.date) ELSE v.text

BdayLines(vcard) ==
  IF Defined(vcard.birthday)
  THEN <<"BDAY:" \o DateOrString(Val(vcard.birthday), formatDate)>>
  ELSE <<>>

AdrLines(vcard, charsetParam) ==
  IF Defined(vcard.addresses)
  THEN [i \in 1..Len(Val(vcard.addresses)) |->
          formatAddress(Val(vcard.addresses)[i], charsetParam)]
  ELSE <<>>

LabelLine(label, charsetParam) ==
  "LABEL" \o TypeParam(label.types) \o charsetParam \o ":" \o escapeText(label.value)

LabelLines(vcard, charsetParam) ==
  IF Defined(vcard.labels)
  THEN [i \in 1..Len(Val(vcard.labels)) |-> LabelLine(Val(vcard.labels)[i], charsetParam)]
  ELSE <<>>

TelLines(vcard) ==
  IF Defined(vcard.phones) THEN Map(formatTelephone, Val(vcard.phones)) ELSE <<>>

EmailLines(vcard, charsetParam) ==
  IF Defined(vcard.emails)
  THEN [i \in 1..Len(Val(vcard.emails)) |-> formatEmail(Val(vcard.emails)[i], charsetParam)]
  ELSE <<>>

TzLines(vcard, charsetParam) ==
  IF Defined(vcard.timezone)
  THEN LET tz == Val(vcard.timezone)
           isUtcOffset == IsUtcOffset(tz)
       IN  <<IF isUtcOffset THEN "TZ:" \o tz
             ELSE "TZ;VALUE=text" \o charsetParam \o ":" \o escapeText(tz)>>
  ELSE <<>>

GeoLines(vcard) ==
  IF Defined(vcard.geo)
  THEN <<"GEO:" \o ToString(Val(vcard.geo).latitude) \o ";"
           \o ToString(Val(vcard.geo).longitude)>>
  ELSE <<>>

AgentLines(vcard, charsetParam) ==
  IF Defined(vcard.agent)
  THEN IF Defined(Val(vcard.agent).uri)
       THEN <<"AGENT;VALUE=uri:" \o Val(Val(vcard.agent).uri)>>
       ELSE IF Defined(Val(vcard.agent).value)
            THEN <<"AGENT" \o charsetParam \o ":" \o escapeText(Val(Val(vcard.agent).value))>>
            ELSE <<>>
  ELSE <<>>

OrgLines(vcard, charsetParam) ==
  IF Defined(vcard.organization)
  THEN LET org == Val(vcard.organization)
           orgParts ==
             (IF Defined(org.name) THEN <<escapeText(Val(org.name))>> ELSE <<>>)
               \o (IF NonEmptyList(org.units) THEN Map(escapeText, Val(org.units)) ELSE <<>>)
       IN  IF Len(orgParts) > 0
           THEN <<"ORG" \o charsetParam \o ":" \o Join(orgParts, ";")>>
           ELSE <<>>
  ELSE <<>>

CategoriesLines(vcard, charsetParam) ==
  IF NonEmptyList(vcard.categories)
  THEN <<"CATEGORIES" \o charsetParam \o ":"
           \o Join(Map(escapeText, Val(vcard.categories)), ",")>>
  ELSE <<>>

RevLines(vcard) ==
  IF Defined(vcard.revision)
  THEN <<"REV:" \o DateOrString(Val(vcard.revision), formatDateTime)>>
  ELSE <<>>

UrlsLines(vcard) ==
  IF NonEmptyList(vcard.urls) THEN formatUrlsForApple(Val(vcard.urls)) ELSE <<>>

\* vcard.urls?.some((u) => u.value === vcard.url) ?? false
AlreadyPresent(vcard) ==
  /\ Defined(vcard.urls)
  /\ \E i \in 1..Len(Val(vcard.urls)) : Val(vcard.urls)[i].value = Val(vcard.url)

\* the legacy url emitted whether or not urls already holds its value
UrlLines_NoDedup(vcard) ==
  IF Defined(vcard.url) THEN <<"URL:" \o Val(vcard.url)>> ELSE <<>>

UrlLines(vcard) ==
  IF Defined(vcard.url)
  THEN IF ~AlreadyPresent(vcard) THEN <<"URL:" \o Val(vcard.url)>> ELSE <<>>
  ELSE <<>>

ClassLines(vcard) == IF Defined(vcard.class) THEN <<"CLASS:" \o Val(vcard.class)>> ELSE <<>>

(***************************************************************************)
(* Custom properties.  A parameter object is the sequence of its           *)
(* <<key, value>> entries in insertion order, keys distinct.               *)
(***************************************************************************)
HasKey(obj, key) == \E i \in 1..Len(obj) : obj[i][1] = key

\* an existing key keeps its first value
SetKey_KeepFirst(obj, key, value) ==
  IF HasKey(obj, key) THEN obj ELSE Append(obj, <<key, value>>)

\* obj[key] = value: an existing key keeps its place, a new key goes last
SetKey(obj, key, value) ==
  IF HasKey(obj, key)
  THEN [i \in 1..Len(obj) |-> IF obj[i][1] = key THEN <<key, value>> ELSE obj[i]]
  ELSE Append(obj, <<key, value>>)

RECURSIVE SpreadFrom(_, _, _)
SpreadFrom(obj, more, i) ==
  IF i > Len(more) THEN obj ELSE SpreadFrom(SetKey(obj, more[i][1], more[i][2]), more, i + 1)

\* { ...obj, ...more }
Spread(obj, more) == SpreadFrom(obj, more, 1)

CustomLine(prop, charset) ==
  LET name == toUpperCase(prop.name)
      params == Spread(IF Defined(charset) THEN <<<<"charset", Val(charset)>>>> ELSE <<>>,
                       IF Defined(prop.params) THEN Val(prop.params) ELSE <<>>)
      rendered == Join([i \in 1..Len(params) |->
                          toUpperCase(params[i][1]) \o "=" \o escapeParamValue(params[i][2])],
                       ";")
  IN  name \o (IF Len(params) > 0 THEN ";" \o rendered ELSE "") \o ":"
        \o escapeText(prop.value)

CustomLines(vcard, charset) ==
  IF NonEmptyList(vcard.customProperties)
  THEN [i \in 1..Len(Val(vcard.customProperties)) |->
          CustomLine(Val(vcard.customProperties)[i], charset)]
  ELSE <<>>

\* the blocks run with the KEY block moved up behind the PHOTO block
LogicalLines_KeyEarly(vcard, options) ==
  LET charset == OptCharset(options)
      charsetParam == CharsetParam(charset)
  IN  <<"BEGIN:VCARD">>
        \o <<"VERSION:3.0">>
        \o FnLines(vcard, charsetParam)
        \o <<formatName(vcard.name, charsetParam)>>
        \o NicknameLines(vcard, charsetParam)
        \o MediaLines("PHOTO", vcard.photo)
        \o MediaLines("KEY", vcard.key)
        \o BdayLines(vcard)
        \o AdrLines(vcard, charsetParam)
        \o LabelLines(vcard, charsetParam)
        \o TelLines(vcard)
        \o EmailLines(vcard, charsetParam)
        \o TextLines("MAILER", vcard.mailer, charsetParam)
        \o TzLines(vcard, charsetParam)
        \o GeoLines(vcard)
        \o TextLines("TITLE", vcard.title, charsetParam)
        \o TextLines("ROLE", vcard.role, charsetParam)
        \o MediaLines("LOGO", vcard.logo)
        \o AgentLines(vcard, charsetParam)
        \o OrgLines(vcard, charsetParam)
        \o CategoriesLines(vcard, charsetParam)
        \o TextLines("NOTE", vcard.note, charsetParam)
        \o TextLines("PRODID", vcard.productId, charsetParam)
        \o RevLines(vcard)
        \o TextLines("SORT-STRING", vcard.sortString, charsetParam)
        \o MediaLines("SOUND", vcard.sound)
        \o TextLines("UID", vcard.uid, charsetParam)
        \o UrlsLines(vcard)
        \o UrlLines(vcard)
        \o ClassLines(vcard)
        \o CustomLines(vcard, charset)
        \o <<"END:VCARD">>

\* the lines array of formatVCard when it reaches its return statement
LogicalLines(vcard, options) ==
  LET charset == OptCharset(options)
      charsetParam == CharsetParam(charset)
  IN  <<"BEGIN:VCARD">>
        \o <<"VERSION:3.0">>
        \o FnLines(vcard, charsetParam)
        \o <<formatName(vcard.name, charsetParam)>>
        \o NicknameLines(vcard, charsetParam)
        \o MediaLines("PHOTO", vcard.photo)
        \o BdayLines(vcard)
        \o AdrLines(vcard, charsetParam)
        \o LabelLines(vcard, charsetParam)
        \o TelLines(vcard)
        \o EmailLines(vcard, charsetParam)
        \o TextLines("MAILER", vcard.mailer, charsetParam)
        \o TzLines(vcard, charsetParam)
        \o GeoLines(vcard)
        \o TextLines("TITLE", vcard.title, charsetParam)
        \o TextLines("ROLE", vcard.role, charsetParam)
        \o MediaLines("LOGO", vcard.logo)
        \o AgentLines(vcard, charsetParam)
        \o OrgLines(vcard, charsetParam)
        \o CategoriesLines(vcard, charsetParam)
        \o TextLines("NOTE", vcard.note, charsetParam)
        \o TextLines("PRODID", vcard.productId, charsetParam)
        \o RevLines(vcard)
        \o TextLines("SORT-STRING", vcard.sortString, charsetParam)
        \o MediaLines("SOUND", vcard.sound)
        \o TextLines("UID", vcard.uid, charsetParam)
        \o UrlsLines(vcard)
        \o UrlLines(vcard)
        \o ClassLines(vcard)
        \o MediaLines("KEY", vcard.key)
        \o CustomLines(vcard, charset)
        \o <<"END:VCARD">>

\* every line terminated, the last one too
FoldAndJoin_Terminated(ls) == Join(Map(foldLine, ls), CRLF) \o CRLF

\* lines.map(foldLine).join('\r\n')
FoldAndJoin(ls) == Join(Map(foldLine, ls), CRLF)

formatVCard(vcard, options) == FoldAndJoin(LogicalLines(vcard, options))

(***************************************************************************)
(* Inputs of the calls.                                                    *)
(***************************************************************************)
RECURSIVE StringsOfLen(_, _)
StringsOfLen(alphabet, n) ==
  IF n = 0 THEN {""} ELSE {c \o t : c \in alphabet, t \in StringsOfLen(alphabet, n - 1)}

StringsUpTo(alphabet, n) == UNION {StringsOfLen(alphabet, k) : k \in 0..n}

\* the reserved characters of both escapers, the line breaks, and plain ones
TextAlphabet == {"a", "n", " ", "'", BS, ";", ",", ":", DQ, CR, LF}

Texts == StringsUpTo(TextAlphabet, MaxText)

\* a run of plain characters up to the fold column, a short part that may
\* hold line breaks and spaces, and a plain tail that may need more folds
FoldAlphabet == {"a", " ", CR, LF}

FoldHeads == (FoldWidth - FoldSlack)..(FoldWidth + 1)

FoldTails == {0, 1, ContWidth - 1, ContWidth}

FoldInputs ==
  {Rep("h", h) \o mid \o Rep("t", t) :
     h \in {0} \cup FoldHeads, mid \in StringsUpTo(FoldAlphabet, MaxMid), t \in FoldTails}

Date(y, m, d, uy, um, ud, hh, mm, ss) ==
  [fullYear |-> y, month |-> m, date |-> d, utcFullYear |-> uy, utcMonth |-> um,
   utcDate |-> ud, utcHours |-> hh, utcMinutes |-> mm, utcSeconds |-> ss]

\* new Date(1990, 4, 15) west of Greenwich, new Date('1995-10-31T22:27:10Z')
\* east of it, an instant of the year 999 and one of the year 10000
Dates ==
  {Date(1990, 4, 15, 1990, 4, 15, 8, 0, 0),
   Date(1995, 10, 1, 1995, 9, 31, 22, 27, 10),
   Date(999, 0, 1, 998, 11, 31, 23, 5, 9),
   Date(10000, 0, 1, 10000, 0, 1, 0, 0, 0)}

Name(family, given, additional, prefixes, suffixes) ==
  [familyName |-> family, givenName |-> given, additionalNames |-> additional,
   honorificPrefixes |-> prefixes, honorificSuffixes |-> suffixes]

\* the minimal record of the README: the required fields and nothing else
MinimalVCard ==
  [formattedName |-> "John Doe",
   name |-> Name(Some("Doe"), Some("John"), Undefined, Undefined, Undefined),
   charset |-> Undefined, nickname |-> Undefined, photo |-> Undefined,
   birthday |-> Undefined, addresses |-> Undefined, labels |-> Undefined,
   phones |-> Undefined, emails |-> Undefined, mailer |-> Undefined,
   timezone |-> Undefined, geo |-> Undefined, title |-> Undefined, role |-> Undefined,
   logo |-> Undefined, agent |-> Undefined, organization |-> Undefined,
   categories |-> Undefined, note |-> Undefined, productId |-> Undefined,
   revision |-> Undefined, sortString |-> Undefined, sound |-> Undefined,
   url |-> Undefined, urls |-> Undefined, uid |-> Undefined, class |-> Undefined,
   key |-> Undefined, customProperties |-> Undefined]

OptionalFields == DOMAIN MinimalVCard \ {"formattedName", "name"}

MediaUri(uri, mediaType) == [uri |-> Some(uri), value |-> Undefined, mediaType |-> mediaType]

MediaInline(value, mediaType) ==
  [uri |-> Undefined, value |-> Some(value), mediaType |-> mediaType]

Address(poBox, ext, street, locality, region, code, country, types) ==
  [postOfficeBox |-> poBox, extendedAddress |-> ext, street |-> street,
   locality |-> locality, region |-> region, postalCode |-> code, country |-> country,
   types |-> types]

Typed(value, types) == [value |-> value, types |-> types]

DateValue(d) == [isDate |-> TRUE, date |-> d, text |-> ""]

StringValue(t) == [isDate |-> FALSE, date |-> Date(0, 0, 0, 0, 0, 0, 0, 0, 0), text |-> t]

Url(value, type) == [value |-> value, type |-> type]

Custom(name, value, params) == [name |-> name, value |-> value, params |-> params]

\* a note longer than two folded lines, reserved characters included
LongNote == Rep("x", FoldWidth - 2) \o ";" \o Rep("y", ContWidth) \o ",z"

\* one value of each optional field, as <<field, value>>: the values of the
\* records that populate several fields
CombinedChoices ==
  {<<"charset", Some("UTF-8")>>,
   <<"nickname", Some(<<"Johnny", "J,Q">>)>>,
   <<"photo", Some(MediaInline("QUJD", Undefined))>>,
   <<"birthday", Some(StringValue("1990-05-15"))>>,
   <<"addresses", Some(<<Address(Undefined, Undefined, Some("123 Main; Street"),
        Some("Any Town"), Some("CA"), Some("91921-1234"), Some("U.S.A."),
        Some(<<"home", "postal">>))>>)>>,
   <<"labels", Some(<<Typed("12 Main St\nAny Town", Some(<<"home">>))>>)>>,
   <<"phones", Some(<<Typed("555\n1234", Undefined)>>)>>,
   <<"emails", Some(<<Typed("alice@example.com", Some(<<"internet", "pref">>))>>)>>,
   <<"mailer", Some("Mail;er 1,0")>>,
   <<"timezone", Some("-05:00; EST")>>,
   <<"geo", Some([latitude |-> 37, longitude |-> -122])>>,
   <<"title", Some("Senior Developer")>>,
   <<"role", Some("Programmer")>>,
   <<"logo", Some(MediaInline("TE9HTw==", Some("PNG")))>>,
   <<"agent", Some([uri |-> Undefined, value |-> Some("Jane; Agent")])>>,
   <<"organization", Some([name |-> Undefined, units |-> Some(<<"Sales">>)])>>,
   <<"categories", Some(<<"WORK", "BUSI,NESS">>)>>,
   <<"note", Some("Line 1\r\nLine 2")>>,
   <<"productId", Some("-//vcard-ts//EN")>>,
   <<"revision", Some(StringValue("1995-10-31T22:27:10Z"))>>,
   <<"sortString", Some("Doe")>>,
   <<"sound", Some(MediaUri("http://example.com/name.ogg", Some("OGG")))>>,
   <<"uid", Some("urn:uuid:1234")>>,
   <<"urls", Some(<<Url("https://a.example", Some("Foo; Bar, Inc."))>>)>>,
   <<"url", Some("https://c.example")>>,
   <<"class", Some("PRIVATE")>>,
   <<"key", Some(MediaInline("S0VZ", Some("X509")))>>,
   <<"customProperties", Some(<<Custom("X-TWITTER", "@johndoe", Undefined),
        Custom("x-socialprofile", "https://t.example/j,d",
               Some(<<<<"type", "twitter">>, <<"userid", "j:d">>>>))>>)>>}

\* every value a populated optional field takes on its own
FieldChoices ==
  CombinedChoices \cup
  {<<"charset", Some("ISO-8859-1")>>,
   <<"nickname", Some(<<>>)>>,
   <<"photo", Some(MediaUri("http://example.com/photo.jpg", Some("JPEG")))>>,
   <<"birthday", Some(DateValue(Date(1990, 4, 15, 1990, 4, 15, 8, 0, 0)))>>,
   <<"addresses", Some(<<>>)>>,
   <<"addresses", Some(<<Address(Some("PO 1"), Some(""), Undefined, Undefined, Undefined,
        Undefined, Undefined, Some(<<>>)),
      Address(Undefined, Undefined, Undefined, Some("Bo\\ston"), Undefined, Undefined,
        Undefined, Undefined)>>)>>,
   <<"addresses", Some(<<Address(Some("a;b"), Some("c,d"), Some("e\\"), Some("f\ng"),
        Some(";"), Some(""), Some("\\;"), Some(<<"work">>)),
      Address(Undefined, Undefined, Undefined, Undefined, Undefined, Undefined, Undefined,
        Some(<<"dom", "home", "pref">>))>>)>>,
   <<"labels", Some(<<>>)>>,
   <<"phones", Some(<<>>)>>,
   <<"phones", Some(<<Typed("+1-555-1234", Some(<<"work", "voice">>)),
                      Typed("+1-555-5678", Undefined)>>)>>,
   <<"phones", Some(<<Typed("555\r\nX-EXTRA:1", Some(<<"cell">>))>>)>>,
   <<"emails", Some(<<>>)>>,
   <<"timezone", Some("-05:00")>>,
   <<"timezone", Some("+5:00")>>,
   <<"timezone", Some("+05:30")>>,
   <<"timezone", Some("-05:00\n")>>,
   <<"timezone", Some("05:00")>>,
   <<"timezone", Some("-0a:00")>>,
   <<"timezone", Some("")>>,
   <<"photo", Some(MediaUri("http://example.com/p;1,2\\3.jpg", Undefined))>>,
   <<"logo", Some(MediaUri("http://example.com/logo.png", Undefined))>>,
   <<"sound", Some(MediaInline("U09V,TkQ=", Some("BASIC")))>>,
   <<"sound", Some(MediaInline("U09VTkQ=", Some("")))>>,
   <<"key", Some(MediaInline("S0;VZ", Undefined))>>,
   <<"agent", Some([uri |-> Some("http://example.com/agent.vcf"), value |-> Undefined])>>,
   <<"agent", Some([uri |-> Undefined, value |-> Undefined])>>,
   <<"organization", Some([name |-> Some("ABC, Inc."),
                           units |-> Some(<<"Engineering", "Soft;ware">>)])>>,
   <<"organization", Some([name |-> Undefined, units |-> Undefined])>>,
   <<"organization", Some([name |-> Undefined, units |-> Some(<<>>)])>>,
   <<"categories", Some(<<>>)>>,
   <<"note", Some(LongNote)>>,
   <<"revision", Some(DateValue(Date(1995, 10, 1, 1995, 9, 31, 22, 27, 10)))>>,
   <<"urls", Some(<<>>)>>,
   <<"urls", Some(<<Url("https://b.example", Some("  ")),
                    Url("https://a.example", Undefined)>>)>>,
   <<"urls", Some(<<Url("https://w.example", Some(" Work\n")),
                    Url("https://x.example", Some("")),
                    Url("https://y.example", Some("Blog, mine"))>>)>>,
   <<"url", Some("https://a.example")>>,
   <<"class", Some("PUBLIC")>>,
   <<"key", Some(MediaUri("https://keys.example/k;1", Some("PGP")))>>,
   <<"customProperties", Some(<<>>)>>,
   <<"customProperties", Some(<<Custom("X-C", "v;1", Some(<<>>)),
        Custom("X-D", "v", Some(<<<<"type", "a,b">>, <<"charset", "KOI8-R">>>>))>>)>>,
   <<"customProperties", Some(<<Custom("X-A", "v", Some(<<<<"charset", "KOI8-R">>>>)),
        Custom("X-B", "v", Some(<<<<"CHARSET", "KOI8-R">>>>))>>)>>,
   <<"customProperties", Some(<<Custom("X-E", "v", Some(<<<<"type", "a">>, <<"Type", "b;c">>>>))>>)>>}

RECURSIVE Populated(_)
\* the records with at most k optional fields populated, one value per field
Populated(k) ==
  IF k = 0 THEN {MinimalVCard}
  ELSE LET fewer == Populated(k - 1)
       IN  fewer \cup
             {[p[1] EXCEPT ![p[2][1]] = p[2][2]] :
                p \in {q \in fewer \X CombinedChoices : ~Defined(q[1][q[2][1]])}}

\* the records with one optional field populated, every value of it
Singles == {[MinimalVCard EXCEPT ![c[1]] = c[2]] : c \in FieldChoices}

\* the legacy url beside the urls list, every value of both
UrlPairs ==
  {[MinimalVCard EXCEPT !.url = u[2], !.urls = l[2]] :
     u \in {c \in FieldChoices : c[1] = "url"}, l \in {c \in FieldChoices : c[1] = "urls"}}

Options(charset, includeContentType) ==
  Some([charset |-> charset, includeContentType |-> includeContentType])

OptionsChoices ==
  {Undefined,
   Options(Undefined, Some(TRUE)),
   Options(Some("UTF-8"), Undefined),
   Options(Some("x;y"), Some(FALSE))}

FormattedNames ==
  {"", "Test; User, with\\special chars", "José García",
   Rep("N", FoldWidth - 3) \o ";" \o Rep("M", ContWidth)}

NameChoices ==
  {Name(f, g, a, p, x) :
     f \in {Undefined, Some(""), Some("Pub;lic"), Some("Tail\\")},
     g \in {Undefined, Some("Jo,hn")},
     a \in {Undefined, Some(<<>>), Some(<<"Quin;lan", "R,">>)},
     p \in {Undefined, Some(<<"Mr.">>)},
     x \in {Undefined, Some(<<>>), Some(<<"Esq.", "Jr\\">>)}}

\* the records given to formatVCard: optional fields, display names,
\* structured names
VCards ==
  Populated(MaxOptional) \cup Singles \cup UrlPairs
    \cup {[MinimalVCard EXCEPT !.formattedName = fn, !.charset = cs] :
            fn \in FormattedNames, cs \in {Undefined, Some("UTF-8")}}
    \cup {[MinimalVCard EXCEPT !.name = n] : n \in NameChoices}

\* records a caller without static typing can pass: a required field left out
Without(vcard, fields) == [f \in DOMAIN vcard \ fields |-> vcard[f]]

ShapeViolations ==
  {Without(MinimalVCard, fields) : fields \in {{"formattedName"}, {"name"}, {"formattedName", "name"}}}
    \cup {Without([MinimalVCard EXCEPT !.note = Some("n")], {"formattedName"})}

\* the required fields whose read gives undefined
MissingRequired(vcard) == {"formattedName", "name"} \ DOMAIN vcard

\* the missing value taken for an empty text, no fault
ThrowsTypeError_Never(vcard) == FALSE

\* undefined.replace in escapeText, undefined.familyName in formatName
ThrowsTypeError(vcard) == MissingRequired(vcard) # {}

\* one array for all calls, declared outside the function
EmptyArray_Kept(previous) == previous

\* const lines: string[] = []: a new array at every call, whatever the last one held
EmptyArray(previous) == <<>>

\* the lines pushed when the fault is raised
LinesBeforeThrow(vcard, options) ==
  <<"BEGIN:VCARD", "VERSION:3.0">>
    \o (IF "formattedName" \in DOMAIN vcard
        THEN FnLines(vcard, CharsetParam(OptCharset(options)))
        ELSE <<>>)

(***************************************************************************)
(* The client: one call at a time.                                         *)
(***************************************************************************)
\* no call of foldLine under way: const result = [], let currentLine, and
\* the place of lines.map(foldLine) in the lines
NoFrame == [index |-> 0, folded |-> <<>>, result |-> <<>>, currentLine |-> ""]

Init ==
  /\ pc = "idle"
  /\ op = ""
  /\ arg = <<>>
  /\ lines = <<>>
  /\ ret = ""
  /\ seen = <<>>
  /\ frame = NoFrame

CallEscapeText ==
  /\ pc = "idle"
  /\ \E t \in Texts : arg' = t /\ ret' = escapeText(t)
  /\ op' = "escapeText"
  /\ lines' = <<>>
  /\ pc' = "done"
  /\ seen' = seen
  /\ frame' = frame

\* the caller passes an escaped text to escapeText once more
CallEscapeTextAgain ==
  /\ pc = "done" /\ op = "escapeText"
  /\ arg \in Texts
  /\ arg' = ret /\ ret' = escapeText(ret)
  /\ op' = "escapeText"
  /\ lines' = <<>>
  /\ pc' = "done"
  /\ seen' = seen
  /\ frame' = frame

CallEscapeParamValue ==
  /\ pc = "idle"
  /\ \E t \in Texts : arg' = t /\ ret' = escapeParamValue(t)
  /\ op' = "escapeParamValue"
  /\ lines' = <<>>
  /\ pc' = "done"
  /\ seen' = seen
  /\ frame' = frame

CallFoldLine ==
  /\ pc = "idle"
  /\ \E t \in FoldInputs : arg' = t /\ ret' = foldLine(t)
  /\ op' = "foldLine"
  /\ lines' = <<>>
  /\ pc' = "done"
  /\ seen' = seen
  /\ frame' = frame

CallFormatDate ==
  /\ pc = "idle"
  /\ \E d \in Dates : arg' = d /\ ret' = formatDate(d)
  /\ op' = "formatDate"
  /\ lines' = <<>>
  /\ pc' = "done"
  /\ seen' = seen
  /\ frame' = frame

CallFormatDateTime ==
  /\ pc = "idle"
  /\ \E d \in Dates : arg' = d /\ ret' = formatDateTime(d)
  /\ op' = "formatDateTime"
  /\ lines' = <<>>
  /\ pc' = "done"
  /\ seen' = seen
  /\ frame' = frame

CallFormatVCard ==
  /\ pc = "idle"
  /\ \E vcard \in VCards \cup ShapeViolations, options \in OptionsChoices :
       /\ op' = "formatVCard"
       /\ arg' = [vcard |-> vcard, options |-> options]
       /\ lines' = EmptyArray(lines)
                     \o (IF MissingRequired(vcard) # {} THEN LinesBeforeThrow(vcard, options)
                         ELSE LogicalLines(vcard, options))
       /\ IF ThrowsTypeError(vcard)
          THEN ret' = "" /\ pc' = "thrown"
          ELSE ret' = FoldAndJoin(lines') /\ pc' = "done"
  /\ seen' = seen
  /\ frame' = frame

\* the caller takes the result, or catches the error; nothing of the call is kept
Return ==
  /\ pc \in {"done", "thrown"}
  /\ pc' = "idle"
  /\ op' = ""
  /\ arg' = <<>>
  /\ lines' = <<>>
  /\ ret' = ""
  /\ seen' = seen
  /\ frame' = frame

Next ==
  \/ CallEscapeText
  \/ CallEscapeTextAgain
  \/ CallEscapeParamValue
  \/ CallFoldLine
  \/ CallFormatDate
  \/ CallFormatDateTime
  \/ CallFormatVCard
  \/ Return

Spec == Init /\ [][Next]_vars

(***************************************************************************)
(* Calls one after the other, on hosts of several time zones.  A Date of   *)
(* the host is an instant; its local calendar fields are those of the      *)
(* instant in the host's zone.  seen is the log of the formatVCard calls:  *)
(* record and options, the zone of the host, the text returned.            *)
(***************************************************************************)
MaxCalls == 3

\* whole hours east of Greenwich
Zones == {0, 9}

Instant(uy, um, ud, hh, mm, ss) ==
  [utcFullYear |-> uy, utcMonth |-> um, utcDate |-> ud, utcHours |-> hh, utcMinutes |-> mm,
   utcSeconds |-> ss]

LeapYear(y) == (y % 4 = 0 /\ y % 100 # 0) \/ y % 400 = 0

\* months counted from 0 as the host counts them
DaysIn(y, m) ==
  IF m = 1 THEN (IF LeapYear(y) THEN 29 ELSE 28)
  ELSE IF m \in {3, 5, 8, 10} THEN 30 ELSE 31

\* the calendar day delta days (-1, 0 or 1) away
ShiftDay(y, m, d, delta) ==
  IF delta = 1
  THEN IF d < DaysIn(y, m) THEN <<y, m, d + 1>>
       ELSE IF m < 11 THEN <<y, m + 1, 1>> ELSE <<y + 1, 0, 1>>
  ELSE IF delta = -1
  THEN IF d > 1 THEN <<y, m, d - 1>>
       ELSE IF m > 0 THEN <<y, m - 1, DaysIn(y, m - 1)>> ELSE <<y - 1, 11, 31>>
  ELSE <<y, m, d>>

\* getFullYear(), getMonth(), getDate() beside the UTC fields of the instant
LocalOf(instant, zone) ==
  LET h == instant.utcHours + zone
      delta == IF h >= 24 THEN 1 ELSE IF h < 0 THEN -1 ELSE 0
      day == ShiftDay(instant.utcFullYear, instant.utcMonth, instant.utcDate, delta)
  IN  Date(day[1], day[2], day[3], instant.utcFullYear, instant.utcMonth, instant.utcDate,
           instant.utcHours, instant.utcMinutes, instant.utcSeconds)

\* the record as the host of that zone reads it
Hosted(vcard, zone) ==
  IF Defined(vcard.birthday) /\ Val(vcard.birthday).isDate
  THEN [vcard EXCEPT !.birthday = Some(DateValue(LocalOf(Val(vcard.birthday).date, zone)))]
  ELSE vcard

\* new Date('1995-10-31T22:27:10Z') as a birthday, a textual birthday, none
Tracked ==
  {MinimalVCard,
   [MinimalVCard EXCEPT !.birthday = Some([isDate |-> TRUE,
                                           date |-> Instant(1995, 9, 31, 22, 27, 10),
                                           text |-> ""])],
   [MinimalVCard EXCEPT !.birthday = Some(StringValue("1995-10-31"))]}

TrackedOptions == {Undefined, Options(Some("UTF-8"), Undefined)}

AgainFormatVCard ==
  /\ Len(seen) < MaxCalls
  /\ \E vcard \in Tracked, options \in TrackedOptions, zone \in Zones :
       /\ op' = "formatVCard"
       /\ arg' = [vcard |-> vcard, options |-> options]
       /\ lines' = EmptyArray(lines) \o LogicalLines(Hosted(vcard, zone), options)
       /\ ret' = FoldAndJoin(lines')
       /\ seen' = Append(seen, [arg |-> arg', zone |-> zone, ret |-> ret'])
  /\ pc' = "done"
  /\ frame' = frame

\* another function of the library called in between
AgainEscapeText ==
  /\ \E t \in {"a;b", "c\nd"} : arg' = t /\ ret' = escapeText(t)
  /\ op' = "escapeText"
  /\ pc' = "done"
  /\ UNCHANGED <<lines, seen, frame>>

AgainFormatDate ==
  /\ \E d \in Dates : arg' = d /\ ret' = formatDate(d)
  /\ op' = "formatDate"
  /\ pc' = "done"
  /\ UNCHANGED <<lines, seen, frame>>

NextCalls ==
  \/ AgainFormatVCard
  \/ AgainEscapeText
  \/ AgainFormatDate

SpecCalls == Init /\ [][NextCalls]_vars

(***************************************************************************)
(* A call of formatVCard statement by statement.  frame is the call of     *)
(* foldLine under way: result and currentLine are its locals, index is the *)
(* line lines.map(foldLine) has reached, folded the lines the map has      *)
(* folded so far.  pc is "call" at the entry of foldLine and "while" at    *)
(* the test of its loop.  The host runs a call to completion, so every     *)
(* statement that can run does run: the steps inside a call are weakly     *)
(* fair.                                                                   *)
(***************************************************************************)
\* most elements result may get; no line of the model needs as many
MaxChunks == 6

\* lengths of a line at and around the fold points: no, one, two, four folds
FoldLengths ==
  {FoldWidth, FoldWidth + 1, FoldWidth + ContWidth, FoldWidth + ContWidth + 1,
   FoldWidth + 3 * ContWidth + 1}

\* short and long lines, a value with a line break, a required field left out
Steppables ==
  {MinimalVCard,
   [MinimalVCard EXCEPT !.note = Some(LongNote)],
   [MinimalVCard EXCEPT !.formattedName = Rep("N", FoldWidth - 3) \o ";" \o Rep("M", ContWidth),
                        !.phones = Some(<<Typed("555\r\nX-EXTRA:1", Some(<<"cell">>))>>)],
   [MinimalVCard EXCEPT !.urls = Some(<<Url("https://w.example", Some(" Work\n"))>>),
                        !.key = Some(MediaUri("https://keys.example/k;1", Some("PGP")))],
   [MinimalVCard EXCEPT !.categories = Some(<<"WORK", "BUSI,NESS">>),
                        !.revision = Some(DateValue(Date(999, 0, 1, 998, 11, 31, 23, 5, 9)))],
   Without(MinimalVCard, {"name"})}
    \cup {[MinimalVCard EXCEPT !.note = Some(Rep("a", n - Len("NOTE:")))] : n \in FoldLengths}

\* the line the call of foldLine under way was given
CurrentLine == lines[frame.index]

\* currentLine.slice(74) not assigned: the remainder stays as it is
Remainder_Kept(currentLine) == currentLine

\* currentLine = currentLine.slice(74)
Remainder(currentLine) == SliceFrom(currentLine, ContWidth)

StepFormatVCard ==
  /\ pc = "idle"
  /\ \E vcard \in Steppables, options \in TrackedOptions :
       /\ arg' = [vcard |-> vcard, options |-> options]
       /\ lines' = EmptyArray(lines)
                     \o (IF MissingRequired(vcard) # {} THEN LinesBeforeThrow(vcard, options)
                         ELSE LogicalLines(vcard, options))
       /\ IF ThrowsTypeError(vcard)
          THEN pc' = "thrown" /\ frame' = NoFrame
          ELSE pc' = "call" /\ frame' = [NoFrame EXCEPT !.index = 1]
  /\ op' = "formatVCard"
  /\ ret' = ""
  /\ seen' = seen

\* foldLine hands value back to the map, which goes on to the next line
Handed(value) ==
  /\ pc' = "call"
  /\ frame' = [index |-> frame.index + 1, folded |-> Append(frame.folded, value),
               result |-> <<>>, currentLine |-> ""]

\* if (line.length <= 75) return line; otherwise the first 75 characters pushed
FoldEnter ==
  /\ pc = "call"
  /\ frame.index <= Len(lines)
  /\ IF Len(CurrentLine) <= FoldWidth
     THEN Handed(CurrentLine)
     ELSE /\ frame' = [frame EXCEPT !.result = <<SliceTo(CurrentLine, FoldWidth)>>,
                                    !.currentLine = SliceFrom(CurrentLine, FoldWidth)]
          /\ pc' = "while"
  /\ UNCHANGED <<op, arg, lines, ret, seen>>

\* one turn of while (currentLine.length > 0)
FoldIterate ==
  /\ pc = "while"
  /\ Len(frame.currentLine) > 0
  /\ Len(frame.result) < MaxChunks
  /\ frame' = [frame EXCEPT !.result = Append(frame.result,
                                               " " \o SliceTo(frame.currentLine, ContWidth)),
                            !.currentLine = Remainder(frame.currentLine)]
  /\ UNCHANGED <<pc, op, arg, lines, ret, seen>>

\* the loop left: return result.join('\r\n')
FoldExit ==
  /\ pc = "while"
  /\ Len(frame.currentLine) = 0
  /\ Handed(Join(frame.result, CRLF))
  /\ UNCHANGED <<op, arg, lines, ret, seen>>

\* the map is through the lines: .join('\r\n') and return
MapJoin ==
  /\ pc = "call"
  /\ frame.index > Len(lines)
  /\ ret' = Join(frame.folded, CRLF)
  /\ pc' = "done"
  /\ frame' = NoFrame
  /\ UNCHANGED <<op, arg, lines, seen>>

Running == FoldEnter \/ FoldIterate \/ FoldExit \/ MapJoin

NextSteps ==
  \/ StepFormatVCard
  \/ FoldEnter
  \/ FoldIterate
  \/ FoldExit
  \/ MapJoin
  \/ Return

SpecSteps == Init /\ [][NextSteps]_vars /\ WF_vars(Running)

(***************************************************************************)
(* Reading a text back: what the properties below say about the output.    *)
(***************************************************************************)
\* the first position >= from where pat occurs in s, 0 when there is none
IndexOf(s, pat, from) ==
  IF \E k \in from..Len(s) : StartsAt(s, k, pat)
  THEN CHOOSE k \in from..Len(s) :
         StartsAt(s, k, pat) /\ \A j \in from..(k - 1) : ~StartsAt(s, j, pat)
  ELSE 0

RECURSIVE DeleteFrom(_, _, _)
DeleteFrom(s, pat, i) ==
  LET k == IndexOf(s, pat, i)
  IN  IF k = 0 THEN SubSeq(s, i, Len(s))
      ELSE SubSeq(s, i, k - 1) \o DeleteFrom(s, pat, k + Len(pat))

\* what a reader does to undo folding: s.replace(/\r\n /g, '')
Unfold(s) == DeleteFrom(s, CRLF \o " ", 1)

RECURSIVE SplitFrom(_, _, _)
SplitFrom(s, sep, i) ==
  LET k == IndexOf(s, sep, i)
  IN  IF k = 0 THEN <<SubSeq(s, i, Len(s))>>
      ELSE <<SubSeq(s, i, k - 1)>> \o SplitFrom(s, sep, k + Len(sep))

\* s.split(sep)
Split(s, sep) == SplitFrom(s, sep, 1)

Returned(name) == pc = "done" /\ op = name

(***************************************************************************)
(* C1.  escapeText(t) is t read left to right with a CRLF pair, a lone CR  *)
(* and a lone LF each turned into backslash+n (one escape per line break,  *)
(* a CRLF pair included), a backslash doubled, and a semicolon and a comma *)
(* each given one backslash: the result of normalising the line breaks and *)
(* then escaping backslash, semicolon, comma and line break in that order. *)
(***************************************************************************)
EscapedChar(c) ==
  IF c = BS THEN BS \o BS
  ELSE IF c = ";" THEN BS \o ";"
  ELSE IF c = "," THEN BS \o ","
  ELSE IF c = CR \/ c = LF THEN BS \o "n"
  ELSE c

RECURSIVE EscapedFrom(_, _)
EscapedFrom(t, i) ==
  IF i > Len(t) THEN ""
  ELSE IF StartsAt(t, i, CRLF) THEN BS \o "n" \o EscapedFrom(t, i + 2)
  ELSE EscapedChar(Ch(t, i)) \o EscapedFrom(t, i + 1)

C1_EscapeText == Returned("escapeText") => ret = EscapedFrom(arg, 1)

\* a backslash followed by a CRLF pair: two backslashes and one escape
C1_Witness ==
  Returned("escapeText") /\ arg = BS \o CRLF /\ ret = BS \o BS \o BS \o "n"

(***************************************************************************)
(* C2.  As claimed: for every text t, deleting every CRLF+space from       *)
(* foldLine(t) gives t back.                                               *)
(***************************************************************************)
C2_Original == Returned("foldLine") => Unfold(ret) = arg

(***************************************************************************)
(* C2, amended.  For every text t in which CRLF+space does not occur,      *)
(* deleting every CRLF+space from foldLine(t) gives t back.                *)
(***************************************************************************)
C2_Unfold ==
  Returned("foldLine") /\ ~Contains(arg, CRLF \o " ") => Unfold(ret) = arg

\* a line folded twice, with a CR and an LF of its own around the first fold
C2_Witness ==
  /\ Returned("foldLine")
  /\ ~Contains(arg, CRLF \o " ")
  /\ Len(arg) > FoldWidth + ContWidth
  /\ Ch(arg, FoldWidth) = CR
  /\ Ch(arg, FoldWidth + 1) = LF
  /\ ret # arg

\* the arguments of the formatVCard call that returned
TheVCard == arg.vcard

TheOptions == arg.options

TheCharset == OptCharset(TheOptions)

(***************************************************************************)
(* C3.  As claimed: in the text formatVCard returns, every piece between   *)
(* CRLFs has at most 75 characters, and CRLF is the only line terminator:  *)
(* every CR is followed by an LF and every LF follows a CR.                *)
(***************************************************************************)
OnlyCRLF(s) ==
  \A i \in 1..Len(s) :
    /\ Ch(s, i) = CR => StartsAt(s, i, CRLF)
    /\ Ch(s, i) = LF => i > 1 /\ Ch(s, i - 1) = CR

LinesWithinWidth(s) ==
  LET pieces == Split(s, CRLF)
  IN  \A i \in 1..Len(pieces) : Len(pieces[i]) <= FoldWidth

C3_Original == Returned("formatVCard") => LinesWithinWidth(ret) /\ OnlyCRLF(ret)

\* the half of C3 that the code keeps: no piece between CRLFs exceeds 75
C3_WidthOnly == Returned("formatVCard") => LinesWithinWidth(ret)

(***************************************************************************)
(* C4.  The value of the N line read back: exactly four semicolons in it   *)
(* are unescaped (preceded by an even number of backslashes), and the five *)
(* pieces they delimit are the escaped family name, the escaped given      *)
(* name, and the additional names, prefixes and suffixes each escaped and  *)
(* comma-joined, a missing component or an empty list giving the empty     *)
(* text.                                                                   *)
(***************************************************************************)
\* the number of backslashes right before position i of s
BackslashRun(s, i) ==
  CHOOSE n \in 0..(i - 1) :
    /\ \A j \in 1..n : Ch(s, i - j) = BS
    /\ n = i - 1 \/ Ch(s, i - n - 1) # BS

UnescapedAt(s, i, c) == Ch(s, i) = c /\ BackslashRun(s, i) % 2 = 0

\* the pieces of s between the positions in cuts (increasing)
RECURSIVE PiecesAt(_, _, _)
PiecesAt(s, cuts, from) ==
  IF cuts = {} THEN <<SubSeq(s, from, Len(s))>>
  ELSE LET k == CHOOSE x \in cuts : \A y \in cuts : x <= y
       IN  <<SubSeq(s, from, k - 1)>> \o PiecesAt(s, cuts \ {k}, k + 1)

SplitUnescaped(s, c) == PiecesAt(s, {i \in 1..Len(s) : UnescapedAt(s, i, c)}, 1)

\* the N line is the fourth line; its value follows `N${charsetParam}:`
NValue == SliceFrom(lines[4], Len("N" \o CharsetParam(TheCharset) \o ":"))

TextOrEmpty(o) == IF Defined(o) THEN escapeText(Val(o)) ELSE ""

ListOrEmpty(o) ==
  IF Defined(o) THEN Join([i \in 1..Len(Val(o)) |-> escapeText(Val(o)[i])], ",") ELSE ""

C4_NameSeparators ==
  Returned("formatVCard") =>
    /\ Cardinality({i \in 1..Len(NValue) : UnescapedAt(NValue, i, ";")}) = 4
    /\ SplitUnescaped(NValue, ";") =
         <<TextOrEmpty(TheVCard.name.familyName), TextOrEmpty(TheVCard.name.givenName),
           ListOrEmpty(TheVCard.name.additionalNames),
           ListOrEmpty(TheVCard.name.honorificPrefixes),
           ListOrEmpty(TheVCard.name.honorificSuffixes)>>

\* no family name, no prefixes; a semicolon, commas and a trailing backslash
\* in the components that are there
C4_Witness ==
  /\ Returned("formatVCard")
  /\ TheVCard.name = Name(Undefined, Some("Jo,hn"), Some(<<"Quin;lan", "R,">>), Undefined,
                          Some(<<"Esq.", "Jr\\">>))
  /\ lines[4] = "N:;Jo\\,hn;Quin\\;lan,R\\,;;Esq.,Jr\\\\"

(***************************************************************************)
(* C5.  As claimed: when the record declares a character set, or the       *)
(* option includeContentType is true, the returned text begins with        *)
(* 'Content-Type: text/directory;profile=vcard;charset=<CHARSET>', a blank *)
(* line and BEGIN:VCARD, <CHARSET> being the record's character set, or    *)
(* UTF-8 when only the option is set.                                      *)
(***************************************************************************)
IncludeContentType ==
  /\ Defined(TheOptions)
  /\ Val(TheOptions).includeContentType = Some(TRUE)

HeaderCharset == IF Defined(TheVCard.charset) THEN Val(TheVCard.charset) ELSE "UTF-8"

C5_Original ==
  Returned("formatVCard") /\ (Defined(TheVCard.charset) \/ IncludeContentType) =>
    StartsAt(ret, 1, "Content-Type: text/directory;profile=vcard;charset=" \o HeaderCharset
                       \o CRLF \o CRLF \o "BEGIN:VCARD")

(***************************************************************************)
(* Reading a logical line: its name, and its head (name and parameters,    *)
(* up to the colon that starts the value: the first colon outside double   *)
(* quotes).                                                                *)
(***************************************************************************)
\* the position of the first character of s in chars, Len(s) + 1 if none
FirstOf(s, chars) ==
  IF ContainsAny(s, chars)
  THEN CHOOSE k \in 1..Len(s) :
         Ch(s, k) \in chars /\ \A j \in 1..(k - 1) : Ch(s, j) \notin chars
  ELSE Len(s) + 1

PropName(line) == SubSeq(line, 1, FirstOf(line, {";", ":"}) - 1)

Quotes(s, k) == Cardinality({j \in 1..k : Ch(s, j) = DQ})

ValueColon(line) ==
  CHOOSE k \in 1..Len(line) :
    /\ Ch(line, k) = ":" /\ Quotes(line, k) % 2 = 0
    /\ \A j \in 1..(k - 1) : ~(Ch(line, j) = ":" /\ Quotes(line, j) % 2 = 0)

LineHead(line) == SubSeq(line, 1, ValueColon(line) - 1)

EndsWith(s, p) == Len(p) <= Len(s) /\ SubSeq(s, Len(s) - Len(p) + 1, Len(s)) = p

\* the properties whose lines the source builds with charsetParam
CharsetProps ==
  {"FN", "N", "NICKNAME", "ADR", "LABEL", "EMAIL", "MAILER", "TZ", "TITLE", "ROLE", "AGENT",
   "ORG", "CATEGORIES", "NOTE", "PRODID", "SORT-STRING", "UID"}

\* a line of one of them in its text form (not TZ:<offset>, not AGENT;VALUE=uri)
CarriesCharset(line) ==
  /\ PropName(line) \in CharsetProps
  /\ LineHead(line) # "TZ"
  /\ ~Contains(LineHead(line), "VALUE=uri")

(***************************************************************************)
(* C6.  As claimed: the record's own charset field drives the per-property *)
(* parameter: when it is declared, the FN line is                          *)
(* FN;CHARSET=<that charset>:<escaped display name> and every other        *)
(* free-text property line carries CHARSET=<that charset>.                 *)
(***************************************************************************)
C6_Original ==
  Returned("formatVCard") /\ Defined(TheVCard.charset) =>
    /\ lines[3] = "FN;CHARSET=" \o Val(TheVCard.charset) \o ":"
                    \o escapeText(TheVCard.formattedName)
    /\ \A i \in 1..Len(lines) :
         CarriesCharset(lines[i]) =>
           Contains(LineHead(lines[i]), ";CHARSET=" \o Val(TheVCard.charset))

(***************************************************************************)
(* C6, amended.  The charset of the call's options, not the record's       *)
(* charset field, drives the per-property parameter: the FN line is        *)
(* FN<p>:<escaped display name> and the head of every N, NICKNAME, ADR,    *)
(* LABEL, EMAIL, MAILER, text TZ, TITLE, ROLE, text AGENT, ORG,            *)
(* CATEGORIES, NOTE, PRODID, SORT-STRING and UID line ends with <p>, where *)
(* <p> is ;CHARSET=<escapeParamValue(options.charset)> when the options    *)
(* give a charset; when they give none these lines hold no CHARSET         *)
(* parameter, whatever the record's charset field is.                      *)
(***************************************************************************)
ExpectedParam ==
  IF Defined(TheCharset) THEN ";CHARSET=" \o escapeParamValue(Val(TheCharset)) ELSE ""

C6_OptionsCharset ==
  Returned("formatVCard") =>
    /\ lines[3] = "FN" \o ExpectedParam \o ":" \o escapeText(TheVCard.formattedName)
    /\ \A i \in 1..Len(lines) :
         CarriesCharset(lines[i]) =>
           IF Defined(TheCharset)
           THEN EndsWith(LineHead(lines[i]), ExpectedParam)
           ELSE ~Contains(LineHead(lines[i]), "CHARSET=")

\* the record declares UTF-8, the call gives no options: a bare FN line
C6_Witness ==
  /\ Returned("formatVCard")
  /\ TheVCard.charset = Some("UTF-8")
  /\ TheVCard.formattedName = "José García"
  /\ ~Defined(TheOptions)
  /\ lines[3] = "FN:José García"

(***************************************************************************)
(* C7.  When the record declares no character set and includeContentType   *)
(* is not set, the returned text has no Content-Type header: read back     *)
(* (unfolded, split on CRLF) it starts with BEGIN:VCARD, VERSION:3.0, the  *)
(* FN line and the N line, and it ends with END:VCARD with no terminator   *)
(* after it.                                                               *)
(***************************************************************************)
C7_NoHeader ==
  Returned("formatVCard") /\ ~Defined(TheVCard.charset) /\ ~IncludeContentType =>
    LET read == Split(Unfold(ret), CRLF)
    IN  /\ StartsAt(ret, 1, "BEGIN:VCARD" \o CRLF \o "VERSION:3.0" \o CRLF \o "FN")
        /\ read[1] = "BEGIN:VCARD"
        /\ read[2] = "VERSION:3.0"
        /\ read[3] = "FN" \o ExpectedParam \o ":" \o escapeText(TheVCard.formattedName)
        /\ PropName(read[4]) = "N"
        /\ read[4] = lines[4]
        /\ read[Len(read)] = "END:VCARD"
        /\ EndsWith(ret, CRLF \o "END:VCARD")
        /\ ~Contains(ret, "Content-Type:")

\* the minimal record of the README without options
C7_Witness ==
  /\ Returned("formatVCard")
  /\ TheVCard = MinimalVCard
  /\ ~Defined(TheOptions)
  /\ ret = "BEGIN:VCARD\r\nVERSION:3.0\r\nFN:John Doe\r\nN:Doe;John;;;\r\nEND:VCARD"

(***************************************************************************)
(* The property a logical line belongs to: its name, the grouped           *)
(* item<i>.URL and item<i>.X-ABLabel lines taken together as "item" and    *)
(* the extension properties as "X-".                                       *)
(***************************************************************************)
Kind(line) ==
  IF StartsAt(line, 1, "item") THEN "item"
  ELSE IF StartsAt(line, 1, "X-") THEN "X-"
  ELSE PropName(line)

\* the order in which the blocks of formatVCard run
CodeOrder ==
  <<"BEGIN", "VERSION", "FN", "N", "NICKNAME", "PHOTO", "BDAY", "ADR", "LABEL", "TEL", "EMAIL",
    "MAILER", "TZ", "GEO", "TITLE", "ROLE", "LOGO", "AGENT", "ORG", "CATEGORIES", "NOTE",
    "PRODID", "REV", "SORT-STRING", "SOUND", "UID", "item", "URL", "CLASS", "KEY", "X-", "END">>

CodeRank(kind) == CHOOSE r \in 1..Len(CodeOrder) : CodeOrder[r] = kind

\* the rows of the field-encoder table, top to bottom
TableOrder ==
  <<{"FN"}, {"N"}, {"NICKNAME", "CATEGORIES"}, {"PHOTO", "LOGO", "SOUND"}, {"KEY"}, {"ADR"},
    {"LABEL"}, {"TEL"}, {"EMAIL"}, {"TZ"}, {"GEO"}, {"ORG"}, {"AGENT"}, {"CLASS"}, {"X-"}>>

InTable(kind) == \E r \in 1..Len(TableOrder) : kind \in TableOrder[r]

TableRank(kind) == CHOOSE r \in 1..Len(TableOrder) : kind \in TableOrder[r]

Framed ==
  /\ lines[1] = "BEGIN:VCARD"
  /\ lines[2] = "VERSION:3.0"
  /\ Kind(lines[3]) = "FN"
  /\ Kind(lines[4]) = "N"
  /\ lines[Len(lines)] = "END:VCARD"

(***************************************************************************)
(* C8.  As claimed: the lines come in one fixed order, the framing, the    *)
(* version, FN and N first, END last, and between them the optional        *)
(* properties in the order of the rows of the field-encoder table: of any  *)
(* two lines of properties of different rows, the one of the earlier row   *)
(* comes first.                                                            *)
(***************************************************************************)
C8_Original ==
  Returned("formatVCard") =>
    /\ Framed
    /\ \A i, j \in 1..Len(lines) :
         i < j /\ InTable(Kind(lines[i])) /\ InTable(Kind(lines[j])) =>
           TableRank(Kind(lines[i])) <= TableRank(Kind(lines[j]))

(***************************************************************************)
(* C8, amended.  The logical lines formatVCard pushes come in one fixed    *)
(* order that does not depend on the input: BEGIN:VCARD, VERSION:3.0, FN   *)
(* and N first, END:VCARD last, and between them the optional properties   *)
(* in the order NICKNAME, PHOTO, BDAY, ADR, LABEL, TEL, EMAIL, MAILER, TZ, *)
(* GEO, TITLE, ROLE, LOGO, AGENT, ORG, CATEGORIES, NOTE, PRODID, REV,      *)
(* SORT-STRING, SOUND, UID, the grouped item<i> lines of the urls list,    *)
(* URL, CLASS, KEY, the custom extension properties: of any two lines the  *)
(* one whose property is earlier in this order is the earlier line.        *)
(***************************************************************************)
C8_CodeOrder ==
  Returned("formatVCard") =>
    /\ Framed
    /\ \A i \in 1..Len(lines) : \E r \in 1..Len(CodeOrder) : CodeOrder[r] = Kind(lines[i])
    /\ \A i, j \in 1..Len(lines) :
         i < j => CodeRank(Kind(lines[i])) <= CodeRank(Kind(lines[j]))

\* a record with a key and a phone: the TEL line comes before the KEY line
C8_Witness ==
  /\ Returned("formatVCard")
  /\ Defined(TheVCard.key) /\ NonEmptyList(TheVCard.phones)
  /\ \E i, j \in 1..Len(lines) :
       i < j /\ Kind(lines[i]) = "TEL" /\ Kind(lines[j]) = "KEY"

(***************************************************************************)
(* C9.  An optional field that is absent, or is an empty list, or is an    *)
(* organization with neither a name nor units, gets no line of its         *)
(* property among the lines formatVCard pushes.                            *)
(***************************************************************************)
\* the property each optional field is written as
PropertyOf ==
  [nickname |-> "NICKNAME", photo |-> "PHOTO", birthday |-> "BDAY", addresses |-> "ADR",
   labels |-> "LABEL", phones |-> "TEL", emails |-> "EMAIL", mailer |-> "MAILER",
   timezone |-> "TZ", geo |-> "GEO", title |-> "TITLE", role |-> "ROLE", logo |-> "LOGO",
   agent |-> "AGENT", organization |-> "ORG", categories |-> "CATEGORIES", note |-> "NOTE",
   productId |-> "PRODID", revision |-> "REV", sortString |-> "SORT-STRING",
   sound |-> "SOUND", uid |-> "UID", urls |-> "item", url |-> "URL", class |-> "CLASS",
   key |-> "KEY", customProperties |-> "X-"]

ListFields ==
  {"nickname", "addresses", "labels", "phones", "emails", "categories", "urls",
   "customProperties"}

NoUnits(org) == ~Defined(org.units) \/ Val(org.units) = <<>>

Omitted(vcard, f) ==
  IF ~Defined(vcard[f]) THEN TRUE
  ELSE IF f \in ListFields THEN Val(vcard[f]) = <<>>
  ELSE IF f = "organization"
       THEN ~Defined(Val(vcard[f]).name) /\ NoUnits(Val(vcard[f]))
       ELSE FALSE

C9_AbsentOmitted ==
  Returned("formatVCard") =>
    \A f \in DOMAIN PropertyOf :
      Omitted(TheVCard, f) => \A i \in 1..Len(lines) : Kind(lines[i]) # PropertyOf[f]

\* an empty nickname list: the four required lines and END, nothing else
C9_Witness ==
  /\ Returned("formatVCard")
  /\ TheVCard.nickname = Some(<<>>)
  /\ lines = <<"BEGIN:VCARD", "VERSION:3.0", "FN:John Doe", "N:Doe;John;;;", "END:VCARD">>

(***************************************************************************)
(* C10.  The legacy url field puts a bare line URL:<value> among the lines *)
(* exactly when it is present and its value is the value of no entry of    *)
(* the urls list; there is then one such line, and none otherwise.         *)
(***************************************************************************)
BareUrlLines == {i \in 1..Len(lines) : StartsAt(lines[i], 1, "URL:")}

InUrls(vcard) ==
  /\ Defined(vcard.urls)
  /\ \E i \in 1..Len(Val(vcard.urls)) : Val(vcard.urls)[i].value = Val(vcard.url)

C10_LegacyUrl ==
  Returned("formatVCard") =>
    IF Defined(TheVCard.url) /\ ~InUrls(TheVCard)
    THEN /\ Cardinality(BareUrlLines) = 1
         /\ \A i \in BareUrlLines : lines[i] = "URL:" \o Val(TheVCard.url)
    ELSE BareUrlLines = {}

\* the legacy url is the value of the second entry of the list: no bare line
C10_Witness ==
  /\ Returned("formatVCard")
  /\ TheVCard.url = Some("https://a.example")
  /\ Defined(TheVCard.urls) /\ Len(Val(TheVCard.urls)) = 2
  /\ Val(TheVCard.urls)[2].value = "https://a.example"
  /\ \E i \in 1..Len(lines) : lines[i] = "item2.URL:https://a.example"
  /\ BareUrlLines = {}

(***************************************************************************)
(* C11.  For a urls list of n entries the lines hold, for the entry at     *)
(* position i, the line item<i>.URL:<value> with the value as given,       *)
(* immediately followed by item<i>.X-ABLabel:<escapeText(label)> exactly   *)
(* when the entry's label is non-empty after trimming; the grouped lines   *)
(* are these and no others, numbered 1..n in list order, and a bare URL:   *)
(* line never comes from a list entry.                                     *)
(***************************************************************************)
UrlsOf(vcard) == IF Defined(vcard.urls) THEN Val(vcard.urls) ELSE <<>>

ItemLines == {k \in 1..Len(lines) : StartsAt(lines[k], 1, "item")}

\* the number of lines before the first grouped line
ItemBase == (CHOOSE k \in ItemLines : \A j \in ItemLines : k <= j) - 1

Labelled(entry) == Defined(entry.type) /\ TrimNonEmpty(Val(entry.type))

C11_GroupedUrls ==
  Returned("formatVCard") =>
    LET urls == UrlsOf(TheVCard)
        n == Len(urls)
        labelsBefore(i) == Cardinality({j \in 1..(i - 1) : Labelled(urls[j])})
        at(i) == ItemBase + i + labelsBefore(i)
    IN  /\ Cardinality(ItemLines) = n + labelsBefore(n + 1)
        /\ \A i \in 1..n :
             /\ lines[at(i)] = "item" \o ToString(i) \o ".URL:" \o urls[i].value
             /\ Labelled(urls[i]) =>
                  lines[at(i) + 1] = "item" \o ToString(i) \o ".X-ABLabel:"
                                       \o escapeText(Val(urls[i].type))
        /\ \A k \in 1..Len(lines) :
             StartsAt(lines[k], 1, "URL:") =>
               /\ Defined(TheVCard.url)
               /\ \A i \in 1..n : urls[i].value # Val(TheVCard.url)

\* three entries: a label with blanks around it, an empty label, a label with a comma
C11_Witness ==
  /\ Returned("formatVCard")
  /\ Len(UrlsOf(TheVCard)) = 3
  /\ ~Defined(TheVCard.url)
  /\ SubSeq(lines, 5, 9) = <<"item1.URL:https://w.example", "item1.X-ABLabel: Work\\n",
                             "item2.URL:https://x.example", "item3.URL:https://y.example",
                             "item3.X-ABLabel:Blog\\, mine">>

(***************************************************************************)
(* C12.  A present timezone gets one TZ line: TZ:<value> when the whole    *)
(* value is a sign, two digits, a colon and two digits, and otherwise a    *)
(* line with the VALUE=text marker (and the character-set parameter of the *)
(* call, if any) whose value is escapeText of the timezone.                *)
(***************************************************************************)
TwoDigits == {a \o b : a, b \in Digits}

SignedOffset(tz) ==
  /\ Len(tz) = Len("+00:00")
  /\ SubSeq(tz, 1, 1) \in {"+", "-"}
  /\ SubSeq(tz, 2, 3) \in TwoDigits
  /\ SubSeq(tz, 4, 4) = ":"
  /\ SubSeq(tz, 5, 6) \in TwoDigits

TzLineSet == {k \in 1..Len(lines) : Kind(lines[k]) = "TZ"}

C12_Timezone ==
  Returned("formatVCard") /\ Defined(TheVCard.timezone) =>
    LET tz == Val(TheVCard.timezone)
    IN  /\ Cardinality(TzLineSet) = 1
        /\ \A k \in TzLineSet :
             lines[k] = IF SignedOffset(tz) THEN "TZ:" \o tz
                        ELSE "TZ;VALUE=text" \o ExpectedParam \o ":" \o escapeText(tz)

\* an offset followed by a name: the text form, the semicolon escaped
C12_Witness ==
  /\ Returned("formatVCard")
  /\ TheVCard.timezone = Some("-05:00; EST")
  /\ ~Defined(TheOptions)
  /\ \E k \in 1..Len(lines) : lines[k] = "TZ;VALUE=text:-05:00\\; EST"

(***************************************************************************)
(* C13.  escapeParamValue(v) is v read left to right with a CRLF pair, a   *)
(* lone CR and a lone LF each turned into one space; when v holds a double *)
(* quote, semicolon, colon or comma, every double quote is moreover turned *)
(* into an apostrophe and the whole is wrapped in one pair of double       *)
(* quotes; otherwise nothing else changes.                                 *)
(***************************************************************************)
RECURSIVE ParamFrom(_, _, _)
\* the reading of v from position i on, quoted telling whether it gets wrapped
ParamFrom(v, i, quoted) ==
  IF i > Len(v) THEN ""
  ELSE IF StartsAt(v, i, CRLF) THEN " " \o ParamFrom(v, i + 2, quoted)
  ELSE IF Ch(v, i) \in {CR, LF} THEN " " \o ParamFrom(v, i + 1, quoted)
  ELSE IF Ch(v, i) = DQ /\ quoted THEN "'" \o ParamFrom(v, i + 1, quoted)
  ELSE Ch(v, i) \o ParamFrom(v, i + 1, quoted)

NeedsQuoting(v) == \E i \in 1..Len(v) : Ch(v, i) \in {DQ, ";", ":", ","}

C13_EscapeParamValue ==
  Returned("escapeParamValue") =>
    ret = IF NeedsQuoting(arg) THEN DQ \o ParamFrom(arg, 1, TRUE) \o DQ
          ELSE ParamFrom(arg, 1, FALSE)

\* a double quote and a CRLF pair: quote, apostrophe, one space, quote
C13_Witness ==
  /\ Returned("escapeParamValue")
  /\ arg = DQ \o CRLF
  /\ ret = DQ \o "' " \o DQ

(***************************************************************************)
(* C14.  Each custom property gets one line, the custom lines being the    *)
(* last ones before END:VCARD, in list order: the upper-cased name, then,  *)
(* only if the merged parameters are not empty, a semicolon and the        *)
(* parameters as UPPERCASED-KEY=escapeParamValue(value) joined by          *)
(* semicolons, then a colon and escapeText(value).  The merged parameters  *)
(* are the call's character set under the key charset, overlaid by the     *)
(* property's own parameters: when the property has the key charset too,   *)
(* its own value is the one rendered.                                      *)
(***************************************************************************)
CustomsOf(vcard) ==
  IF Defined(vcard.customProperties) THEN Val(vcard.customProperties) ELSE <<>>

OwnParams(prop) == IF Defined(prop.params) THEN Val(prop.params) ELSE <<>>

\* the global character set first, unless the property's own charset replaces it there
Merged(prop) ==
  LET own == OwnParams(prop)
      ownCharset == {i \in 1..Len(own) : own[i][1] = "charset"}
  IN  IF ~Defined(TheCharset) THEN own
      ELSE IF ownCharset = {} THEN <<<<"charset", Val(TheCharset)>>>> \o own
      ELSE LET c == CHOOSE i \in ownCharset : TRUE
           IN  <<own[c]>> \o SubSeq(own, 1, c - 1) \o SubSeq(own, c + 1, Len(own))

Rendered(param) == toUpperCase(param[1]) \o "=" \o escapeParamValue(param[2])

RECURSIVE RenderedFrom(_, _)
RenderedFrom(params, i) ==
  IF i > Len(params) THEN ""
  ELSE ";" \o Rendered(params[i]) \o RenderedFrom(params, i + 1)

ExpectedCustom(prop) ==
  toUpperCase(prop.name) \o RenderedFrom(Merged(prop), 1) \o ":" \o escapeText(prop.value)

C14_CustomLine ==
  Returned("formatVCard") =>
    LET customs == CustomsOf(TheVCard)
        n == Len(customs)
    IN  /\ Cardinality({k \in 1..Len(lines) : Kind(lines[k]) = "X-"}) = n
        /\ \A i \in 1..n : lines[Len(lines) - 1 - n + i] = ExpectedCustom(customs[i])

\* own parameters type and charset under a call with charset UTF-8
C14_Witness ==
  /\ Returned("formatVCard")
  /\ TheCharset = Some("UTF-8")
  /\ Len(CustomsOf(TheVCard)) = 2
  /\ lines[Len(lines) - 2] = "X-C;CHARSET=UTF-8:v\\;1"
  /\ lines[Len(lines) - 1] = "X-D;CHARSET=KOI8-R;TYPE=\"a,b\":v"

(***************************************************************************)
(* C15.  As claimed: on a text with no backslash, semicolon, comma, colon  *)
(* or double quote, escapeText and escapeParamValue both return the text   *)
(* itself.                                                                 *)
(***************************************************************************)
Escaper == Returned("escapeText") \/ Returned("escapeParamValue")

C15_Original ==
  Escaper /\ ~ContainsAny(arg, {BS, ";", ",", ":", DQ}) => ret = arg

(***************************************************************************)
(* C15, amended.  On a text with no backslash, semicolon, comma, colon,    *)
(* double quote, CR or LF, escapeText and escapeParamValue both return the *)
(* text itself.                                                            *)
(***************************************************************************)
C15_Identity ==
  Escaper /\ ~ContainsAny(arg, {BS, ";", ",", ":", DQ, CR, LF}) => ret = arg

\* a plain value with an apostrophe and a blank, through the parameter escaper
C15_Witness ==
  /\ Returned("escapeParamValue")
  /\ arg = "a' "
  /\ ret = "a' "

(***************************************************************************)
(* C16.  As claimed: when the record omits the formatted display name or   *)
(* the structured name, formatVCard raises no error and returns the text   *)
(* with an empty text in place of the missing value.                       *)
(***************************************************************************)
OmitsRequired ==
  /\ op = "formatVCard" /\ pc # "idle"
  /\ MissingRequired(TheVCard) # {}

C16_Original ==
  OmitsRequired =>
    /\ pc = "done"
    /\ StartsAt(ret, 1, "BEGIN:VCARD" \o CRLF \o "VERSION:3.0" \o CRLF \o "FN")
    /\ "formattedName" \notin DOMAIN TheVCard => lines[3] = "FN" \o ExpectedParam \o ":"
    /\ "name" \notin DOMAIN TheVCard => lines[4] = "N" \o ExpectedParam \o ":;;;;"

(***************************************************************************)
(* C16, amended.  When the record omits the formatted display name or the  *)
(* structured name, formatVCard raises a TypeError and returns no text.    *)
(***************************************************************************)
C16_Throws == OmitsRequired => pc = "thrown" /\ ret = ""

\* no display name: the fault comes right after the version line
C16_Witness ==
  /\ op = "formatVCard" /\ pc = "thrown"
  /\ "formattedName" \notin DOMAIN TheVCard
  /\ "name" \in DOMAIN TheVCard
  /\ lines = <<"BEGIN:VCARD", "VERSION:3.0">>

(***************************************************************************)
(* C17.  As claimed: the text depends on the record and the options only:  *)
(* any two calls of formatVCard with equal record and equal options return *)
(* equal text, whatever was called before or in between.                   *)
(***************************************************************************)
C17_Original ==
  \A i, j \in 1..Len(seen) : seen[i].arg = seen[j].arg => seen[i].ret = seen[j].ret

(***************************************************************************)
(* C17, amended.  The text depends on the record, the options and, for a   *)
(* birthday given as a Date, the time zone of the host: any two calls with *)
(* equal record and equal options on hosts of the same time zone return    *)
(* equal text, whatever was called before or in between; the serializer    *)
(* keeps no state between calls.                                           *)
(***************************************************************************)
C17_SameZone ==
  \A i, j \in 1..Len(seen) :
    seen[i].arg = seen[j].arg /\ seen[i].zone = seen[j].zone => seen[i].ret = seen[j].ret

\* the same call before and after a call on another record, and another function
\* called last
C17_Witness ==
  /\ Len(seen) = 3
  /\ seen[1].arg = seen[3].arg /\ seen[1].zone = seen[3].zone
  /\ seen[2].arg # seen[1].arg
  /\ Defined(seen[1].arg.vcard.birthday)
  /\ seen[1].ret = seen[3].ret
  /\ op = "formatDate"

(***************************************************************************)
(* C18.  foldLine returns a line of at most 75 characters unchanged.  A    *)
(* line of n > 75 characters comes back as 1 + ceil((n - 75) / 74)         *)
(* segments: the first 75 characters, then, for each successive chunk of   *)
(* up to 74 of the remaining characters, CRLF, one space and the chunk;    *)
(* with its leading space a segment has at most 75 characters, and every   *)
(* segment but the last exactly 75.                                        *)
(***************************************************************************)
Segments(n) == 1 + ((n - 75) + 73) \div 74

\* the k-th chunk of the remainder, k = 1, 2, ...
Chunk(line, k) ==
  LET last == 75 + k * 74
  IN  SubSeq(line, 75 + (k - 1) * 74 + 1, IF last < Len(line) THEN last ELSE Len(line))

\* where the leading space of the k-th continuation stands in the folded text
SpaceAt(k) == k * (75 + 2) + 1

C18_FoldLine ==
  Returned("foldLine") =>
    IF Len(arg) <= 75 THEN ret = arg
    ELSE LET segs == Segments(Len(arg))
         IN  /\ Len(ret) = Len(arg) + 3 * (segs - 1)
             /\ SubSeq(ret, 1, 75) = SubSeq(arg, 1, 75)
             /\ \A k \in 1..(segs - 1) :
                  LET chunk == Chunk(arg, k)
                  IN  /\ SubSeq(ret, SpaceAt(k) - 2, SpaceAt(k)) = CRLF \o " "
                      /\ SubSeq(ret, SpaceAt(k) + 1, SpaceAt(k) + Len(chunk)) = chunk
                      /\ Len(chunk) >= 1 /\ 1 + Len(chunk) <= 75
                      /\ k < segs - 1 => 1 + Len(chunk) = 75

\* 150 characters: 75 + 74 + 1
C18_Witness ==
  /\ Returned("foldLine")
  /\ arg = Rep("h", 76) \o Rep("t", 74)
  /\ ret = Rep("h", 75) \o CRLF \o " h" \o Rep("t", 73) \o CRLF \o " t"

(***************************************************************************)
(* C19.  As claimed: when the call has a character set, every line whose   *)
(* value is rendered through escapeText carries                            *)
(* ;CHARSET=<escapeParamValue(charset)> before its colon (here for the     *)
(* lines of the standard fields, the label lines of the urls list and the  *)
(* textual KEY line among them); when it has none, no line of a standard   *)
(* field holds a CHARSET parameter.                                        *)
(***************************************************************************)
LabelLineOfUrls(line) == Kind(line) = "item" /\ Contains(LineHead(line), ".X-ABLabel")

TextKeyLine(line) == LineHead(line) = "KEY"

\* the lines of standard fields whose value went through escapeText
FreeText(line) == CarriesCharset(line) \/ LabelLineOfUrls(line) \/ TextKeyLine(line)

C19_Original ==
  Returned("formatVCard") =>
    \A i \in 1..Len(lines) :
      IF Defined(TheCharset)
      THEN FreeText(lines[i]) => EndsWith(LineHead(lines[i]), ExpectedParam)
      ELSE Kind(lines[i]) # "X-" => ~Contains(LineHead(lines[i]), "CHARSET=")

\* the half that holds: without a character set no standard line has the parameter
C19_NoneWithout ==
  Returned("formatVCard") /\ ~Defined(TheCharset) =>
    \A i \in 1..Len(lines) :
      Kind(lines[i]) # "X-" => ~Contains(LineHead(lines[i]), "CHARSET=")

(***************************************************************************)
(* C20.  escapeText is not idempotent.  When the caller escapes an escaped *)
(* text again, the result equals the text passed exactly when the original *)
(* text held no backslash, semicolon, comma, CR or LF; in every case each  *)
(* backslash of the escaped text comes back doubled: the result holds two  *)
(* backslashes for each one passed plus one for each semicolon and comma,  *)
(* and reading it back once (a backslash standing for the character behind *)
(* it) gives the escaped text that was passed.                             *)
(***************************************************************************)
Count(s, chars) == Cardinality({i \in 1..Len(s) : Ch(s, i) \in chars})

RECURSIVE ReadBackFrom(_, _)
ReadBackFrom(s, i) ==
  IF i > Len(s) THEN ""
  ELSE IF Ch(s, i) = BS /\ i < Len(s) THEN Ch(s, i + 1) \o ReadBackFrom(s, i + 2)
  ELSE Ch(s, i) \o ReadBackFrom(s, i + 1)

\* a step from escapeText(t) returned to escapeText(escapeText(t)) returned
EscapedAgain ==
  /\ Returned("escapeText")
  /\ op' = "escapeText" /\ pc' = "done"
  /\ arg' = ret

C20_NotIdempotent ==
  [][EscapedAgain =>
       /\ (ret' = ret) <=> ~ContainsAny(arg, {BS, ";", ",", CR, LF})
       /\ Count(ret', {BS}) = 2 * Count(ret, {BS}) + Count(ret, {";", ","})
       /\ ReadBackFrom(ret', 1) = ret]_vars

\* ;,; escaped twice: three backslashes before each separator
C20_Witness ==
  /\ Returned("escapeText")
  /\ arg = BS \o ";" \o BS \o "," \o BS \o ";"
  /\ ret = BS \o BS \o BS \o ";" \o BS \o BS \o BS \o "," \o BS \o BS \o BS \o ";"

(***************************************************************************)
(* C21.  PHOTO, LOGO and SOUND: a record without the field has no line of  *)
(* that name; a record with it has exactly one, made of the name, then     *)
(* ;VALUE=uri for a reference or ;ENCODING=b for inline content, then      *)
(* ;TYPE=<subtype> exactly when a subtype is given, then a colon and the   *)
(* locator or the content character for character.  The head of the line   *)
(* never holds both markers.                                               *)
(***************************************************************************)
MediaFields == {"photo", "logo", "sound"}

LinesNamed(prop) == {k \in 1..Len(lines) : PropName(lines[k]) = prop}

Marker(media) == IF Defined(media.uri) THEN ";VALUE=uri" ELSE ";ENCODING=b"

Payload(media) == IF Defined(media.uri) THEN Val(media.uri) ELSE Val(media.value)

Subtype(media) == IF Defined(media.mediaType) THEN Len(";TYPE=") + Len(Val(media.mediaType)) ELSE 0

MarkedLine(prop, media, line) ==
  LET head == SliceTo(line, Len(prop) + Len(Marker(media)) + Subtype(media))
      rest == SliceFrom(line, Len(head))
  IN  /\ StartsAt(head, 1, prop \o Marker(media))
      /\ Contains(head, ";TYPE=") <=> Defined(media.mediaType)
      /\ Defined(media.mediaType) => EndsWith(head, ";TYPE=" \o Val(media.mediaType))
      /\ ~(Contains(head, ";VALUE=uri") /\ Contains(head, ";ENCODING=b"))
      /\ rest = ":" \o Payload(media)

C21_MediaLine ==
  Returned("formatVCard") =>
    \A f \in MediaFields :
      LET at == LinesNamed(PropertyOf[f])
      IN  IF Defined(TheVCard[f])
          THEN /\ Cardinality(at) = 1
               /\ \A k \in at : MarkedLine(PropertyOf[f], Val(TheVCard[f]), lines[k])
          ELSE at = {}

\* a locator with a semicolon, a comma and a backslash, no subtype
C21_Witness ==
  /\ Returned("formatVCard")
  /\ Defined(TheVCard.photo) /\ Defined(Val(TheVCard.photo).uri)
  /\ ContainsAny(Val(Val(TheVCard.photo).uri), {";", ",", BS})
  /\ \E k \in 1..Len(lines) : lines[k] = "PHOTO;VALUE=uri:http://example.com/p;1,2\\3.jpg"

(***************************************************************************)
(* C22.  KEY: a record without the field has no KEY line; a record with it *)
(* has exactly one.  For a reference the line is KEY, a colon and the      *)
(* locator escaped as a text value, with no parameter at all and so no     *)
(* VALUE=uri marker; for inline content it is built as a PHOTO, LOGO or    *)
(* SOUND line is: KEY;ENCODING=b, ;TYPE=<subtype> when a subtype is given, *)
(* a colon and the content character for character.                        *)
(***************************************************************************)
C22_KeyLine ==
  Returned("formatVCard") =>
    LET at == LinesNamed("KEY")
    IN  IF Defined(TheVCard.key)
        THEN LET media == Val(TheVCard.key)
             IN  /\ Cardinality(at) = 1
                 /\ \A k \in at :
                      IF Defined(media.uri)
                      THEN /\ lines[k] = "KEY:" \o escapeText(Val(media.uri))
                           /\ ~Contains(lines[k], "VALUE=uri")
                      ELSE MarkedLine("KEY", media, lines[k])
        ELSE at = {}

\* a locator with a semicolon and a subtype that the line leaves out
C22_Witness ==
  /\ Returned("formatVCard")
  /\ Defined(TheVCard.key) /\ Defined(Val(TheVCard.key).uri)
  /\ Defined(Val(TheVCard.key).mediaType)
  /\ \E k \in 1..Len(lines) : lines[k] = "KEY:https://keys.example/k\\;1"

(***************************************************************************)
(* C23.  The ADR lines are as many as the addresses and stand in their     *)
(* order.  The head of each is ADR, then ;TYPE= and the tags joined by     *)
(* commas as given when the tag list is present and not empty (nothing     *)
(* otherwise), then the character-set parameter.  Exactly six semicolons   *)
(* of its value are unescaped, and the seven pieces they delimit are the   *)
(* post office box, extended address, street, locality, region, postal     *)
(* code and country, each escaped as a text value, an absent one empty.    *)
(***************************************************************************)
AddressesOf(vcard) == IF Defined(vcard.addresses) THEN Val(vcard.addresses) ELSE <<>>

Tags(address) ==
  IF Defined(address.types) /\ Val(address.types) # <<>>
  THEN ";TYPE=" \o Join(Val(address.types), ",")
  ELSE ""

Components(address) ==
  <<TextOrEmpty(address.postOfficeBox), TextOrEmpty(address.extendedAddress),
    TextOrEmpty(address.street), TextOrEmpty(address.locality), TextOrEmpty(address.region),
    TextOrEmpty(address.postalCode), TextOrEmpty(address.country)>>

\* the number of lines before the first ADR line
AdrBase == (CHOOSE k \in LinesNamed("ADR") : \A j \in LinesNamed("ADR") : k <= j) - 1

C23_AddressLine ==
  Returned("formatVCard") =>
    LET addresses == AddressesOf(TheVCard)
    IN  /\ Cardinality(LinesNamed("ADR")) = Len(addresses)
        /\ \A i \in 1..Len(addresses) :
             LET line == lines[AdrBase + i]
                 head == LineHead(line)
                 value == SliceFrom(line, Len(head) + 1)
             IN  /\ head = "ADR" \o Tags(addresses[i]) \o ExpectedParam
                 /\ Contains(head, ";TYPE=") <=> Tags(addresses[i]) # ""
                 /\ Cardinality({k \in 1..Len(value) : UnescapedAt(value, k, ";")}) = 6
                 /\ SplitUnescaped(value, ";") = Components(addresses[i])

\* seven components with separators, a line break and backslashes in them, and
\* a second address that has tags only
C23_Witness ==
  /\ Returned("formatVCard")
  /\ Len(AddressesOf(TheVCard)) = 2
  /\ Defined(TheCharset)
  /\ \E k \in 1..(Len(lines) - 1) :
       /\ lines[k] = "ADR;TYPE=work" \o ExpectedParam
                       \o ":a\\;b;c\\,d;e\\\\;f\\ng;\\;;;\\\\\\;"
       /\ lines[k + 1] = "ADR;TYPE=dom,home,pref" \o ExpectedParam \o ":;;;;;;"

(***************************************************************************)
(* C24.  As claimed: formatDate returns 10 characters, four digits of the  *)
(* local year, a hyphen, two digits of the local month, a hyphen and two   *)
(* digits of the local day; formatDateTime returns 20 characters, the same *)
(* of the UTC fields, then T, the UTC hours, minutes and seconds in two    *)
(* digits each with colons between, and Z.                                 *)
(***************************************************************************)
DigitValue(c) == CHOOSE d \in 0..9 : ToString(d) = c

RECURSIVE NumberOf(_)
NumberOf(s) ==
  IF Len(s) = 0 THEN 0
  ELSE 10 * NumberOf(SubSeq(s, 1, Len(s) - 1)) + DigitValue(Ch(s, Len(s)))

\* characters from..to of s are digits that read n
Field(s, from, to, n) ==
  /\ to <= Len(s)
  /\ \A i \in from..to : Ch(s, i) \in Digits
  /\ NumberOf(SubSeq(s, from, to)) = n

DateShape(s, year, month, day) ==
  /\ Field(s, 1, 4, year) /\ Ch(s, 5) = "-"
  /\ Field(s, 6, 7, month + 1) /\ Ch(s, 8) = "-"
  /\ Field(s, 9, 10, day)

TimeShape(s, hours, minutes, seconds) ==
  /\ Ch(s, 11) = "T" /\ Field(s, 12, 13, hours) /\ Ch(s, 14) = ":"
  /\ Field(s, 15, 16, minutes) /\ Ch(s, 17) = ":"
  /\ Field(s, 18, 19, seconds) /\ Ch(s, 20) = "Z"

DateAsClaimed ==
  Returned("formatDate") =>
    Len(ret) = 10 /\ DateShape(ret, arg.fullYear, arg.month, arg.date)

DateTimeAsClaimed ==
  Returned("formatDateTime") =>
    /\ Len(ret) = 20
    /\ DateShape(ret, arg.utcFullYear, arg.utcMonth, arg.utcDate)
    /\ TimeShape(ret, arg.utcHours, arg.utcMinutes, arg.utcSeconds)

C24_Original == DateAsClaimed /\ DateTimeAsClaimed

\* what the code keeps: the claim for the instants whose year has four digits
C24_FourDigitYears ==
  /\ Returned("formatDate") /\ arg.fullYear \in 1000..9999 => DateAsClaimed
  /\ Returned("formatDateTime") /\ arg.utcFullYear \in 1000..9999 => DateTimeAsClaimed

(***************************************************************************)
(* C25.  A call of formatVCard with a record that has its required fields  *)
(* runs to its return: the call does not raise, every turn of the loop of  *)
(* foldLine makes the remainder shorter by at least one and at most 74     *)
(* characters, a call under way always reaches its return, and what it     *)
(* returns is the text of the function, the folded lines joined by CRLF.   *)
(***************************************************************************)
StructurallyValid == {"formattedName", "name"} \subseteq DOMAIN arg.vcard

UnderWay == pc \in {"call", "while"}

TextReturned == pc = "done" /\ ret = formatVCard(arg.vcard, arg.options)

LoopTurn == pc = "while" /\ pc' = "while" /\ frame'.result # frame.result

C25_Terminates ==
  /\ [](pc # "idle" /\ StructurallyValid => pc # "thrown")
  /\ [](pc = "done" => TextReturned)
  /\ [][LoopTurn =>
          /\ Len(frame'.currentLine) < Len(frame.currentLine)
          /\ Len(frame.currentLine) - Len(frame'.currentLine) <= ContWidth]_vars
  /\ UnderWay /\ StructurallyValid ~> TextReturned

\* a note of 298 characters with its name, returned: the loop took four turns
C25_Witness ==
  /\ Returned("formatVCard")
  /\ StructurallyValid
  /\ frame = NoFrame
  /\ Defined(TheVCard.note) /\ Len(Val(TheVCard.note)) = 3 * ContWidth + FoldWidth + 1 - Len("NOTE:")
  /\ Len(Split(ret, CRLF \o " ")) = 5

(***************************************************************************)
(* C26.  As claimed: the text formatVCard returns, with every CRLF+space   *)
(* deleted and then split at CRLF, is the sequence of the logical lines    *)
(* the call collected, one per property emitted; exactly one of the pieces *)
(* is BEGIN:VCARD, exactly one is END:VCARD, and that one is the last.     *)
(***************************************************************************)
ReadLines == Split(Unfold(ret), CRLF)

Occurrences(ls, line) == Cardinality({k \in 1..Len(ls) : ls[k] = line})

C26_Original ==
  Returned("formatVCard") =>
    /\ ReadLines = lines
    /\ Occurrences(ReadLines, "BEGIN:VCARD") = 1
    /\ Occurrences(ReadLines, "END:VCARD") = 1
    /\ ReadLines[Len(ReadLines)] = "END:VCARD"

\* what the code keeps: the claim for the calls none of whose logical lines
\* holds a CR or an LF
C26_NoBreaksInLines ==
  Returned("formatVCard") /\ (\A k \in 1..Len(lines) : ~ContainsAny(lines[k], {CR, LF})) =>
    /\ ReadLines = lines
    /\ Occurrences(ReadLines, "BEGIN:VCARD") = 1
    /\ Occurrences(ReadLines, "END:VCARD") = 1
    /\ ReadLines[Len(ReadLines)] = "END:VCARD"

(***************************************************************************)
(* C27.  The text escapeText returns holds no CR and no LF, and each       *)
(* semicolon and each comma in it stands right behind a run of backslashes *)
(* of odd length.                                                          *)
(***************************************************************************)
C27_EscapedSafe ==
  Returned("escapeText") =>
    /\ ~ContainsAny(ret, {CR, LF})
    /\ \A i \in 1..Len(ret) : Ch(ret, i) \in {";", ","} => BackslashRun(ret, i) % 2 = 1

\* a backslash, a semicolon and a line break in: the semicolon ends up behind
\* three backslashes
C27_Witness ==
  /\ Returned("escapeText")
  /\ arg = BS \o ";" \o CR
  /\ ret = BS \o BS \o BS \o ";" \o BS \o "n"

(***************************************************************************)
(* C28.  As claimed: on each line of a custom property the names of the    *)
(* parameters, as written (upper case), are pairwise different; no such    *)
(* line has two CHARSET parameters.                                        *)
(***************************************************************************)
\* the parameters of a line: the pieces of its head after the name, cut at
\* the semicolons outside quotes
ParamsOfLine(line) ==
  LET head == LineHead(line)
      cuts == {k \in 1..Len(head) : Ch(head, k) = ";" /\ Quotes(head, k) % 2 = 0}
  IN  Tail(PiecesAt(head, cuts, 1))

ParamName(param) == SubSeq(param, 1, FirstOf(param, {"="}) - 1)

NamesOnce(line) ==
  LET params == ParamsOfLine(line)
  IN  \A i, j \in 1..Len(params) : i # j => ParamName(params[i]) # ParamName(params[j])

\* the lines of the custom properties: the last ones before END:VCARD
CustomLineSet == (Len(lines) - Len(CustomsOf(TheVCard)))..(Len(lines) - 1)

C28_Original ==
  Returned("formatVCard") => \A k \in CustomLineSet : NamesOnce(lines[k])

\* what the code keeps: the names are written once on the lines of the
\* properties whose keys, the global charset key among them, differ in more
\* than letter case
KeysOf(prop) ==
  {toUpperCase(OwnParams(prop)[i][1]) : i \in 1..Len(OwnParams(prop))}

CaseDistinct(prop) ==
  /\ Cardinality(KeysOf(prop)) = Len(OwnParams(prop))
  /\ Defined(TheCharset) =>
       \A i \in 1..Len(OwnParams(prop)) :
         toUpperCase(OwnParams(prop)[i][1]) = "CHARSET" => OwnParams(prop)[i][1] = "charset"

C28_CaseDistinctKeys ==
  Returned("formatVCard") =>
    LET customs == CustomsOf(TheVCard)
    IN  \A i \in 1..Len(customs) :
          CaseDistinct(customs[i]) => NamesOnce(lines[Len(lines) - Len(customs) + i - 1])

====
